---- MODULE Spec2Model ----
(***************************************************************************)
(* Model of the clinxchat-api real-time core: the socket.io presence and   *)
(* room registry (services/socketHandler.js), the message fan-out of the   *)
(* HTTP controllers, the delivery timestamps of MessageModel, the private  *)
(* chat lookup of ChatModel, the team invite capacity gate of              *)
(* InviteController and the group join-request flow of GroupController.    *)
(*                                                                         *)
(* Database tables are variables named after the tables; an AUTO_INCREMENT *)
(* table is a sequence whose index is the row id.  Every async handler is  *)
(* one action, except where two handlers can interleave at an await and    *)
(* the interleaving is observable: those handlers are split at the await.  *)
(***************************************************************************)
EXTENDS Integers, Sequences, FiniteSets, TLC

VARIABLES
    sockets,              \* socket id -> [user, st]: the connection handler's position
    onlineUsers,          \* the Map onlineUsers: user id -> socket id (NoSocket = no entry)
    rooms,                \* socket id -> set of room keys the socket has joined
    inbox,                \* socket id -> sequence of events delivered to that socket
    chats,                \* table chats: sequence of [type, group_id]
    chat_participants,    \* table chat_participants: set of <<chat_id, user_id>>
    messages,             \* table messages: sequence of rows
    notifications,        \* table notifications: sequence of [user_id, type]
    reqs,                 \* in-flight HTTP send requests: request id -> record
    groups,               \* table groups: group_id -> [name]
    group_members,        \* table group_members: <<group_id, user_id>> -> role ("none" = no row)
    group_permissions,    \* table group_permissions: group_id -> flags
    group_join_requests,  \* table group_join_requests: sequence of [group_id, user_id, status]
    group_invite_links,   \* table group_invite_links: sequence of [group_id, deleted]
    team_members,         \* table team_members: user_id -> role ("none" = no row), one team
    team_invites,         \* table team_invites: sequence of [email, accepted_at, invited_by]
    invreqs,              \* in-flight invite accept requests: user id -> record
    channels,             \* table channels: channel id -> [team_id, type, is_default, deleted_at]
    channel_members,      \* table channel_members: set of <<channel_id, user_id>>
    now,                  \* the database clock behind CURRENT_TIMESTAMP
    last,                 \* the last HTTP response sent
    retry                 \* the running queryWithRetry call: [pc, attempts, i, log]

vars == <<sockets, onlineUsers, rooms, inbox, chats, chat_participants, messages,
          notifications, reqs, groups, group_members, group_permissions,
          group_join_requests, group_invite_links, team_members, team_invites, invreqs, channels,
          channel_members, now, last, retry>>

socketVars == <<sockets, onlineUsers, rooms, inbox>>
chatVars   == <<chats, chat_participants, messages, notifications, reqs>>
groupVars  == <<groups, group_members, group_permissions, group_join_requests, group_invite_links>>
teamVars   == <<team_members, team_invites, invreqs, channels>>

(***************************************************************************)
(* Bounds                                                                  *)
(***************************************************************************)
NumSockets == 3
MaxInbox == 2
MaxReqs == 2
MaxMessages == 2
MaxChats == 4
MaxNotifications == 2
MaxClock == 2
MaxInvites == 3
MaxJoinRequests == 2
MaxLinks == 1
MaxAttempts == 3

(***************************************************************************)
(* Identifiers.  Users, groups, chats and channels all draw their ids from *)
(* the same small numbers, so that the same number names a user, a group   *)
(* and a chat at once.                                                     *)
(***************************************************************************)
NULL == 0
NoSocket == 0
DefaultMemberLimit == 5
TeamOwner == 7
SocketIds == 1..NumSockets
SocketUsers == {7, 8}
GroupUsers == {7, 8, 9}
GroupIds == {7, 8}
RoomIds == {7, 8}
Users == {7, 8, 9}
ReqIds == 1..MaxReqs
TeamUsers == {7, 8, 9, 10, 11, 12}
ChannelIds == {1, 2, 3, 4}
InvReqIds == {1, 2}
IdleInvReq == [pc |-> "idle", kind |-> "none", user |-> NULL, invite |-> NULL]
IdleReq == [pc |-> "idle", kind |-> "none", user |-> NULL, target |-> NULL,
            chatId |-> NULL, msgId |-> NULL]
NoResponse == [op |-> "none", status |-> 0, code |-> "none"]

(***************************************************************************)
(* Room keys: the template literals `user:${id}`, `group:${id}`,           *)
(* `chat:${id}` of socketHandler.js and the controllers.                   *)
(***************************************************************************)
RoomKeyBare(kind, id) == ToString(id)

RoomKey(kind, id) == kind \o ":" \o ToString(id)

NoRoom == ""

Event(name, room, userId, id) ==
    [event |-> name, room |-> room, userId |-> userId, id |-> id]

Connected(s) == sockets[s].st \in {"lookup", "open"}

(* io.to(room).emit: every connected socket that joined the room. *)
InRoom(room) == {s \in SocketIds : Connected(s) /\ room \in rooms[s]}

(* socket.broadcast.emit: every connected socket but the sender. *)
Others(s) == {t \in SocketIds : Connected(t) /\ t # s}

(* socket.to(room).emit: the room without the sender. *)
InRoomBut(room, s) == InRoom(room) \ {s}

CanDeliver(targets) == \A t \in targets : Len(inbox[t]) < MaxInbox

Deliver(targets, ev) ==
    [t \in SocketIds |-> IF t \in targets THEN Append(inbox[t], ev) ELSE inbox[t]]

(* GroupModel.findByUserId: the groups the user has a group_members row in. *)
findByUserId(userId) == {g \in GroupIds : group_members[<<g, userId>>] # "none"}

(***************************************************************************)
(* services/socketHandler.js                                               *)
(***************************************************************************)

(* io.on('connection') up to the await of GroupModel.findByUserId: the     *)
(* socket is registered as the user's online entry and joins its user room.*)
Connect(s, u) ==
    /\ sockets[s].st = "new"
    /\ sockets' = [sockets EXCEPT ![s] = [user |-> u, st |-> "lookup"]]
    /\ onlineUsers' = [onlineUsers EXCEPT ![u] = s]
    /\ rooms' = [rooms EXCEPT ![s] = {RoomKey("user", u)}]
    /\ UNCHANGED <<inbox, chatVars, groupVars, teamVars, channel_members, now, last, retry>>

(* The transport closes while the connection handler still awaits the      *)
(* group lookup: no 'disconnect' listener is registered yet, so nothing    *)
(* runs; socket.io drops the socket from its rooms.                        *)
DisconnectDuringLookup(s) ==
    /\ sockets[s].st = "lookup"
    /\ sockets' = [sockets EXCEPT ![s].st = "lost"]
    /\ rooms' = [rooms EXCEPT ![s] = {}]
    /\ UNCHANGED <<onlineUsers, inbox, chatVars, groupVars, teamVars, channel_members, now, last,
                   retry>>

(* The rest of the connection handler, after the await: join the group     *)
(* rooms, broadcast user_online, register the event listeners.  On a       *)
(* socket whose transport is already closed the joins reach no one.        *)
ConnectFinish(s) ==
    /\ sockets[s].st \in {"lookup", "lost"}
    /\ CanDeliver(Others(s))
    /\ LET u == sockets[s].user
           live == sockets[s].st = "lookup"
       IN /\ sockets' = [sockets EXCEPT ![s].st = IF live THEN "open" ELSE "zombie"]
          /\ rooms' = [rooms EXCEPT ![s] =
                         IF live
                         THEN @ \cup {RoomKey("group", g) : g \in findByUserId(u)}
                         ELSE @]
          /\ inbox' = Deliver(Others(s), Event("user_online", NoRoom, u, NULL))
    /\ UNCHANGED <<onlineUsers, chatVars, groupVars, teamVars, channel_members, now, last,
                   retry>>

(* socket.on('disconnect'). *)
Disconnect(s) ==
    /\ sockets[s].st = "open"
    /\ CanDeliver(Others(s))
    /\ LET u == sockets[s].user
       IN /\ onlineUsers' = [onlineUsers EXCEPT ![u] = NoSocket]
          /\ inbox' = Deliver(Others(s), Event("user_offline", NoRoom, u, NULL))
    /\ sockets' = [sockets EXCEPT ![s].st = "closed"]
    /\ rooms' = [rooms EXCEPT ![s] = {}]
    /\ UNCHANGED <<chatVars, groupVars, teamVars, channel_members, now, last, retry>>

(* socket.on('join_group'), 'leave_group', 'join_chat', 'leave_chat'. *)
join_group(s, groupId) ==
    /\ sockets[s].st = "open"
    /\ rooms' = [rooms EXCEPT ![s] = @ \cup {RoomKey("group", groupId)}]
    /\ UNCHANGED <<sockets, onlineUsers, inbox, chatVars, groupVars, teamVars,
                   channel_members, now, last, retry>>

leave_group(s, groupId) ==
    /\ sockets[s].st = "open"
    /\ rooms' = [rooms EXCEPT ![s] = @ \ {RoomKey("group", groupId)}]
    /\ UNCHANGED <<sockets, onlineUsers, inbox, chatVars, groupVars, teamVars,
                   channel_members, now, last, retry>>

join_chat(s, chatId) ==
    /\ sockets[s].st = "open"
    /\ rooms' = [rooms EXCEPT ![s] = @ \cup {RoomKey("chat", chatId)}]
    /\ UNCHANGED <<sockets, onlineUsers, inbox, chatVars, groupVars, teamVars,
                   channel_members, now, last, retry>>

leave_chat(s, chatId) ==
    /\ sockets[s].st = "open"
    /\ rooms' = [rooms EXCEPT ![s] = @ \ {RoomKey("chat", chatId)}]
    /\ UNCHANGED <<sockets, onlineUsers, inbox, chatVars, groupVars, teamVars,
                   channel_members, now, last, retry>>

(* isUserOnline / getOnlineUsers. *)
isUserOnline(userId) == onlineUsers[userId] # NoSocket

getOnlineUsers == {u \in DOMAIN onlineUsers : onlineUsers[u] # NoSocket}

(***************************************************************************)
(* HTTP responses.                                                         *)
(***************************************************************************)
Response(op, status, code) ==
    [op |-> op, status |-> status, code |-> code]

(***************************************************************************)
(* models/chatModel.js                                                     *)
(***************************************************************************)

(* ChatModel.isParticipant *)
isParticipant(chatId, userId) == <<chatId, userId>> \in chat_participants

(* ChatModel.findPrivateChat: the private chats that have a participant    *)
(* row for user1Id and a participant row for user2Id.  The query is        *)
(* LIMIT 1 without ORDER BY, so any of them may be the row returned.       *)
findPrivateChat(user1Id, user2Id) ==
    {c \in 1..Len(chats) :
        /\ chats[c].type = "private"
        /\ <<c, user1Id>> \in chat_participants
        /\ <<c, user2Id>> \in chat_participants}

(* ChatModel.findByGroupId *)
findByGroupId(groupId) ==
    {c \in 1..Len(chats) : chats[c].type = "group" /\ chats[c].group_id = groupId}

(* MessageModel.create's INSERT: the new row, timestamps NULL. *)
NewMessage(chatId, senderId, channelId) ==
    [chat_id |-> chatId, sender_id |-> senderId, channel_id |-> channelId,
     seen_at |-> NULL, delivered_at |-> NULL]

InFlight == {r \in ReqIds : reqs[r].pc # "idle"}

(* Bound on the messages table: no new send starts once MaxMessages        *)
(* messages are stored or about to be.                                     *)
RoomForSend ==
    Len(messages) + Cardinality({r \in ReqIds : reqs[r].kind \in {"private", "group", "channel"}
                                                 /\ reqs[r].pc # "idle"}) < MaxMessages

(***************************************************************************)
(* controllers/chatController.js                                           *)
(***************************************************************************)

(* ChatController.sendPrivateMessage up to the first await inside          *)
(* getOrCreatePrivateChat: the body is valid and the receiver exists.      *)
sendPrivateMessage(r, u, receiverId) ==
    /\ reqs[r].pc = "idle"
    /\ RoomForSend
    /\ reqs' = [reqs EXCEPT ![r] = [pc |-> "find", kind |-> "private", user |-> u,
                                    target |-> receiverId, chatId |-> NULL, msgId |-> NULL]]
    /\ UNCHANGED <<socketVars, chats, chat_participants, messages, notifications,
                   groupVars, teamVars, channel_members, now, last, retry>>

(* ChatController.getPrivateChat up to the same await. *)
getPrivateChat(r, u, otherUserId) ==
    /\ reqs[r].pc = "idle"
    /\ reqs' = [reqs EXCEPT ![r] = [pc |-> "find", kind |-> "getchat", user |-> u,
                                    target |-> otherUserId, chatId |-> NULL, msgId |-> NULL]]
    /\ UNCHANGED <<socketVars, chats, chat_participants, messages, notifications,
                   groupVars, teamVars, channel_members, now, last, retry>>

AfterChat(kind) == IF kind = "private" THEN "insert" ELSE "seen"

(* ChatModel.getOrCreatePrivateChat, the findPrivateChat query. *)
getOrCreatePrivateChat_find(r) ==
    /\ reqs[r].pc = "find"
    /\ LET found == findPrivateChat(reqs[r].user, reqs[r].target)
       IN IF found = {}
          THEN reqs' = [reqs EXCEPT ![r].pc = "create"]
          ELSE \E c \in found :
                  reqs' = [reqs EXCEPT ![r].pc = AfterChat(reqs[r].kind), ![r].chatId = c]
    /\ UNCHANGED <<socketVars, chats, chat_participants, messages, notifications,
                   groupVars, teamVars, channel_members, now, last, retry>>

(* ChatModel.createPrivateChat without its transaction: each INSERT        *)
(* commits on its own, so the chat row stays when the participants INSERT  *)
(* fails.                                                                  *)
createPrivateChatAutocommit(user1Id, user2Id) ==
    LET chatId == Len(chats) + 1
    IN IF user1Id = user2Id
       THEN [ok |-> FALSE, chatId |-> NULL,
             chats |-> Append(chats, [type |-> "private", group_id |-> NULL]),
             chat_participants |-> chat_participants]
       ELSE [ok |-> TRUE, chatId |-> chatId,
             chats |-> Append(chats, [type |-> "private", group_id |-> NULL]),
             chat_participants |-> chat_participants
                                      \cup {<<chatId, user1Id>>, <<chatId, user2Id>>}]

(* ChatModel.createPrivateChat: one transaction inserting the chat row and *)
(* both participant rows.  With user1Id = user2Id the two participant rows *)
(* violate unique_participant: the INSERT fails after the chat row was     *)
(* written, the catch rolls the transaction back and rethrows.             *)
createPrivateChat(user1Id, user2Id) ==
    LET chatId == Len(chats) + 1
    IN IF user1Id = user2Id
       THEN [ok |-> FALSE, chatId |-> NULL,
             chats |-> chats, chat_participants |-> chat_participants]
       ELSE [ok |-> TRUE, chatId |-> chatId,
             chats |-> Append(chats, [type |-> "private", group_id |-> NULL]),
             chat_participants |-> chat_participants
                                      \cup {<<chatId, user1Id>>, <<chatId, user2Id>>}]

(* ChatModel.getOrCreatePrivateChat, the createPrivateChat call; when it   *)
(* throws, the handler answers 500.                                        *)
getOrCreatePrivateChat_create(r) ==
    /\ reqs[r].pc = "create"
    /\ Len(chats) < MaxChats
    /\ LET tx == createPrivateChat(reqs[r].user, reqs[r].target)
       IN /\ chats' = tx.chats
          /\ chat_participants' = tx.chat_participants
          /\ IF tx.ok
             THEN /\ reqs' = [reqs EXCEPT ![r].pc = AfterChat(reqs[r].kind),
                                          ![r].chatId = tx.chatId]
                  /\ UNCHANGED last
             ELSE /\ reqs' = [reqs EXCEPT ![r] = IdleReq]
                  /\ last' = Response(reqs[r].kind, 500, "error")
    /\ UNCHANGED <<socketVars, messages, notifications, groupVars, teamVars,
                   channel_members, now, retry>>

(* MessageModel.create, the INSERT. *)
MessageModel_create(r) ==
    /\ reqs[r].pc = "insert"
    /\ messages' = Append(messages, NewMessage(reqs[r].chatId, reqs[r].user, NULL))
    /\ reqs' = [reqs EXCEPT ![r].pc = "reread", ![r].msgId = Len(messages) + 1]
    /\ UNCHANGED <<socketVars, chats, chat_participants, notifications, groupVars,
                   teamVars, channel_members, now, last, retry>>

(***************************************************************************)
(* models/messageModel.js: the delivery timestamps                         *)
(***************************************************************************)

(* MessageModel.markAsSeen: UPDATE messages SET seen_at = CURRENT_TIMESTAMP *)
(* WHERE chat_id = ? AND sender_id != ? AND seen_at IS NULL                *)
markAsSeenAlways(chatId, userId) ==
    [m \in 1..Len(messages) |->
        IF messages[m].chat_id = chatId /\ messages[m].sender_id # userId
        THEN [messages[m] EXCEPT !.seen_at = now]
        ELSE messages[m]]

markAsSeen(chatId, userId) ==
    [m \in 1..Len(messages) |->
        IF /\ messages[m].chat_id = chatId
           /\ messages[m].sender_id # userId
           /\ messages[m].seen_at = NULL
        THEN [messages[m] EXCEPT !.seen_at = now]
        ELSE messages[m]]

(* MessageModel.setDelivered: UPDATE messages SET delivered_at =           *)
(* CURRENT_TIMESTAMP WHERE id = ? AND delivered_at IS NULL                 *)
setDelivered(messageId) ==
    [m \in 1..Len(messages) |->
        IF m = messageId /\ messages[m].delivered_at = NULL
        THEN [messages[m] EXCEPT !.delivered_at = now]
        ELSE messages[m]]

(* The database clock advances. *)
Tick ==
    /\ now < MaxClock
    /\ now' = now + 1
    /\ UNCHANGED <<socketVars, chatVars, groupVars, teamVars, channel_members, last, retry>>

(* A call of MessageModel.setDelivered(messageId). *)
SetDelivered(messageId) ==
    /\ messageId \in 1..Len(messages)
    /\ messages' = setDelivered(messageId)
    /\ UNCHANGED <<socketVars, chats, chat_participants, notifications, reqs,
                   groupVars, teamVars, channel_members, now, last, retry>>

(***************************************************************************)
(* controllers/chatController.js, continued                                *)
(***************************************************************************)

(* sendPrivateMessage after MessageModel.create resolved: the row is read  *)
(* back and receive_message goes to the receiver's user room.              *)
sendPrivateMessage_emit(r) ==
    /\ reqs[r].pc = "reread"
    /\ reqs[r].kind = "private"
    /\ LET targets == InRoom(RoomKey("user", reqs[r].target))
       IN /\ CanDeliver(targets)
          /\ inbox' = Deliver(targets,
                              Event("receive_message", RoomKey("user", reqs[r].target),
                                    reqs[r].user, reqs[r].msgId))
    /\ reqs' = [reqs EXCEPT ![r].pc = "notify"]
    /\ UNCHANGED <<sockets, onlineUsers, rooms, chats, chat_participants, messages,
                   notifications, groupVars, teamVars, channel_members, now, last, retry>>

(* sendPrivateMessage, the notification block and the 201 response.  A     *)
(* failure of NotificationModel.create is caught and logged.               *)
sendPrivateMessage_notify(r, ok) ==
    /\ reqs[r].pc = "notify"
    /\ IF ok
       THEN LET targets == InRoom(RoomKey("user", reqs[r].target))
            IN /\ Len(notifications) < MaxNotifications
               /\ CanDeliver(targets)
               /\ notifications' = Append(notifications,
                                          [user_id |-> reqs[r].target, type |-> "message"])
               /\ inbox' = Deliver(targets,
                                   Event("notification", RoomKey("user", reqs[r].target),
                                         reqs[r].target, Len(notifications) + 1))
       ELSE UNCHANGED <<notifications, inbox>>
    /\ last' = Response("sendPrivateMessage", 201, "ok")
    /\ reqs' = [reqs EXCEPT ![r] = IdleReq]
    /\ UNCHANGED <<sockets, onlineUsers, rooms, chats, chat_participants, messages,
                   groupVars, teamVars, channel_members, now, retry>>

(* getPrivateChat after getOrCreatePrivateChat: read the page, mark the    *)
(* chat seen for the requester, answer 200.                                *)
getPrivateChat_seen(r) ==
    /\ reqs[r].pc = "seen"
    /\ messages' = markAsSeen(reqs[r].chatId, reqs[r].user)
    /\ last' = Response("getPrivateChat", 200, "ok")
    /\ reqs' = [reqs EXCEPT ![r] = IdleReq]
    /\ UNCHANGED <<socketVars, chats, chat_participants, notifications,
                   groupVars, teamVars, channel_members, now, retry>>

(* ChatController.getMessages *)
getMessages(u, chatId) ==
    /\ IF ~isParticipant(chatId, u)
       THEN /\ last' = Response("getMessages", 403, "not_participant")
            /\ UNCHANGED messages
       ELSE /\ messages' = markAsSeen(chatId, u)
            /\ last' = Response("getMessages", 200, "ok")
    /\ UNCHANGED <<socketVars, chats, chat_participants, notifications, reqs,
                   groupVars, teamVars, channel_members, now, retry>>

(* ChatController.markAsSeen: message_seen is emitted to the user room of  *)
(* every participant of the chat.                                          *)
ChatController_markAsSeen(u, chatId) ==
    /\ IF ~isParticipant(chatId, u)
       THEN /\ last' = Response("markAsSeen", 403, "not_participant")
            /\ UNCHANGED <<messages, inbox>>
       ELSE LET targets == UNION {InRoom(RoomKey("user", p)) :
                                    p \in {q \in Users : isParticipant(chatId, q)}}
            IN /\ CanDeliver(targets)
               /\ messages' = markAsSeen(chatId, u)
               /\ inbox' = [t \in SocketIds |->
                              IF t \in targets
                              THEN Append(inbox[t],
                                          Event("message_seen",
                                                RoomKey("user", sockets[t].user), u, chatId))
                              ELSE inbox[t]]
               /\ last' = Response("markAsSeen", 200, "ok")
    /\ UNCHANGED <<sockets, onlineUsers, rooms, chats, chat_participants, notifications,
                   reqs, groupVars, teamVars, channel_members, now, retry>>

(***************************************************************************)
(* GroupController (src/unnamed/part_005): messages                        *)
(***************************************************************************)

(* GroupModel.isMember: the role of the member row, "none" without one. *)
isMember(groupId, userId) == group_members[<<groupId, userId>>]

(* GroupModel.isAdmin / isAdminOrModerator *)
isAdmin(groupId, userId) == isMember(groupId, userId) = "admin"

isAdminOrModerator(groupId, userId) == isMember(groupId, userId) \in {"admin", "moderator"}

(* GroupController.sendMessage up to MessageModel.create: membership,      *)
(* send_message permission, group chat lookup.                             *)
GroupController_sendMessage(r, u, groupId) ==
    /\ reqs[r].pc = "idle"
    /\ RoomForSend
    /\ IF isMember(groupId, u) = "none"
       THEN /\ last' = Response("group_sendMessage", 403, "not_member")
            /\ UNCHANGED reqs
       ELSE IF ~group_permissions[groupId].send_message /\ isMember(groupId, u) = "member"
       THEN /\ last' = Response("group_sendMessage", 403, "members_cannot_send")
            /\ UNCHANGED reqs
       ELSE IF findByGroupId(groupId) = {}
       THEN /\ last' = Response("group_sendMessage", 404, "chat_not_found")
            /\ UNCHANGED reqs
       ELSE \E c \in findByGroupId(groupId) :
               /\ reqs' = [reqs EXCEPT ![r] = [pc |-> "insert", kind |-> "group", user |-> u,
                                               target |-> groupId, chatId |-> c,
                                               msgId |-> NULL]]
               /\ UNCHANGED last
    /\ UNCHANGED <<socketVars, chats, chat_participants, messages, notifications,
                   groupVars, teamVars, channel_members, now, retry>>

(* GroupController.sendMessage after MessageModel.create resolved:         *)
(* receive_message goes to the group room, then the 201 response.          *)
GroupController_sendMessage_emit(r) ==
    /\ reqs[r].pc = "reread"
    /\ reqs[r].kind = "group"
    /\ LET targets == InRoom(RoomKey("group", reqs[r].target))
       IN /\ CanDeliver(targets)
          /\ inbox' = Deliver(targets,
                              Event("receive_message", RoomKey("group", reqs[r].target),
                                    reqs[r].user, reqs[r].msgId))
    /\ last' = Response("group_sendMessage", 201, "ok")
    /\ reqs' = [reqs EXCEPT ![r] = IdleReq]
    /\ UNCHANGED <<sockets, onlineUsers, rooms, chats, chat_participants, messages,
                   notifications, groupVars, teamVars, channel_members, now, retry>>

(* GroupController.getMessages: the page is read, nothing is written. *)
GroupController_getMessages(u, groupId) ==
    /\ IF isMember(groupId, u) = "none"
       THEN last' = Response("group_getMessages", 403, "not_member")
       ELSE IF findByGroupId(groupId) = {}
       THEN last' = Response("group_getMessages", 404, "chat_not_found")
       ELSE last' = Response("group_getMessages", 200, "ok")
    /\ UNCHANGED <<socketVars, chatVars, groupVars, teamVars, channel_members, now, retry>>

(***************************************************************************)
(* GroupController (src/unnamed/part_005): joining a group                 *)
(***************************************************************************)

(* The group's creator (groups.created_by): group g was created by user g. *)
created_by(groupId) == groupId

(* The admins NotificationModel.create is called for:                      *)
(* admins.filter(a => a.role === 'admin')                                  *)
Admins(groupId) == {u \in GroupUsers : group_members[<<groupId, u>>] = "admin"}

(* One notifications row per user of the set, in the order of the ids. *)
RECURSIVE NotifyEach(_, _, _)
NotifyEach(rows, users, type) ==
    IF users = {} THEN rows
    ELSE LET u == CHOOSE x \in users : \A y \in users : x <= y
         IN NotifyEach(Append(rows, [user_id |-> u, type |-> type]), users \ {u}, type)

(* GroupModel.createJoinRequest followed by the notification of the        *)
(* admins: rows in the notifications table, nothing is emitted.  notified  *)
(* is FALSE when NotificationModel.create throws: the handler answers 500. *)
CreateJoinRequest(op, u, groupId, notified) ==
    /\ Len(group_join_requests) < MaxJoinRequests
    /\ group_join_requests' = Append(group_join_requests,
                                     [group_id |-> groupId, user_id |-> u,
                                      status |-> "pending"])
    /\ IF notified
       THEN /\ Len(notifications) + Cardinality(Admins(groupId)) <= MaxNotifications
            /\ notifications' = NotifyEach(notifications, Admins(groupId),
                                           "group_join_request")
            /\ last' = Response(op, 202, "submitted")
       ELSE /\ UNCHANGED notifications
            /\ last' = Response(op, 500, "error")
    /\ UNCHANGED <<group_members, chat_participants, inbox, retry>>

(* GroupController.joinRequest *)
GroupController_joinRequest(u, groupId, notified) ==
    /\ IF isMember(groupId, u) # "none"
       THEN /\ last' = Response("joinRequest", 400, "already_member")
            /\ UNCHANGED <<group_members, group_join_requests, chat_participants,
                           notifications, inbox>>
       ELSE IF ~group_permissions[groupId].admin_approval
       THEN /\ group_members' = [group_members EXCEPT ![<<groupId, u>>] = "member"]
            /\ chat_participants' = chat_participants \cup
                                        {<<c, u>> : c \in findByGroupId(groupId)}
            /\ last' = Response("joinRequest", 201, "joined")
            /\ UNCHANGED <<group_join_requests, notifications, inbox>>
       ELSE CreateJoinRequest("joinRequest", u, groupId, notified)
    /\ UNCHANGED <<sockets, onlineUsers, rooms, chats, messages, reqs, group_permissions,
                   group_invite_links, groups, teamVars, channel_members, now, retry>>

(* GroupController.createInvite *)
GroupController_createInvite(u, groupId) ==
    /\ IF ~isAdmin(groupId, u) /\ ~group_permissions[groupId].invite_link
       THEN /\ last' = Response("createInvite", 403, "not_allowed")
            /\ UNCHANGED group_invite_links
       ELSE /\ Len(group_invite_links) < MaxLinks
            /\ group_invite_links' = Append(group_invite_links,
                                            [group_id |-> groupId, deleted |-> FALSE])
            /\ last' = Response("createInvite", 201, "ok")
    /\ UNCHANGED <<socketVars, chatVars, group_members, group_permissions,
                   group_join_requests, groups, teamVars, channel_members, now, retry>>

(* GroupModel.findInviteByToken: a link's token is identified with its id. *)
findInviteByToken(token) ==
    {t \in 1..Len(group_invite_links) : t = token /\ ~group_invite_links[t].deleted}

(* GroupController.joinByToken (links are created without expiry). *)
GroupController_joinByToken(u, token, notified) ==
    /\ IF findInviteByToken(token) = {}
       THEN /\ last' = Response("joinByToken", 404, "invalid_token")
            /\ UNCHANGED <<group_members, group_join_requests, chat_participants,
                           notifications, inbox>>
       ELSE LET groupId == group_invite_links[token].group_id
            IN IF isMember(groupId, u) # "none"
               THEN /\ last' = Response("joinByToken", 400, "already_member")
                    /\ UNCHANGED <<group_members, group_join_requests, chat_participants,
                                   notifications, inbox>>
               ELSE IF group_permissions[groupId].admin_approval
               THEN CreateJoinRequest("joinByToken", u, groupId, notified)
               ELSE /\ group_members' = [group_members EXCEPT ![<<groupId, u>>] = "member"]
                    /\ chat_participants' = chat_participants \cup
                                                {<<c, u>> : c \in findByGroupId(groupId)}
                    /\ UNCHANGED group_join_requests
                    /\ IF notified
                       THEN LET targets == InRoom(RoomKey("user", u))
                            IN /\ Len(notifications) < MaxNotifications
                               /\ CanDeliver(targets)
                               /\ notifications' = Append(notifications,
                                                          [user_id |-> u,
                                                           type |-> "group_joined"])
                               /\ inbox' = Deliver(targets,
                                                   Event("group_added", RoomKey("user", u),
                                                         u, groupId))
                               /\ last' = Response("joinByToken", 201, "joined")
                       ELSE /\ UNCHANGED <<notifications, inbox>>
                            /\ last' = Response("joinByToken", 500, "error")
    /\ UNCHANGED <<sockets, onlineUsers, rooms, chats, messages, reqs, group_permissions,
                   group_invite_links, groups, teamVars, channel_members, now, retry>>

(* GroupModel.updateJoinRequestStatus: UPDATE group_join_requests SET      *)
(* status = ? WHERE id = ?                                                 *)
(* GroupModel.deleteInviteLink: DELETE ... WHERE id = ?. *)
deleteInviteLink(inviteId) ==
    [i \in 1..Len(group_invite_links) |->
        IF i = inviteId
        THEN [group_invite_links[i] EXCEPT !.deleted = TRUE]
        ELSE group_invite_links[i]]

(* GroupController.deleteInvite. *)
GroupController_deleteInvite(u, groupId, inviteId) ==
    /\ IF ~isAdmin(groupId, u)
       THEN /\ last' = Response("deleteInvite", 403, "admin_only")
            /\ UNCHANGED group_invite_links
       ELSE IF inviteId \notin 1..Len(group_invite_links)
               \/ group_invite_links[inviteId].deleted
       THEN /\ last' = Response("deleteInvite", 404, "not_found")
            /\ UNCHANGED group_invite_links
       ELSE /\ group_invite_links' = deleteInviteLink(inviteId)
            /\ last' = Response("deleteInvite", 200, "deleted")
    /\ UNCHANGED <<socketVars, chatVars, group_members, group_permissions,
                   group_join_requests, groups, teamVars, channel_members, now, retry>>

updateJoinRequestStatus(requestId, status) ==
    [i \in 1..Len(group_join_requests) |->
        IF i = requestId
        THEN [group_join_requests[i] EXCEPT !.status = status]
        ELSE group_join_requests[i]]

(* GroupController.approveJoinRequest.  GroupModel.addMember is a plain    *)
(* INSERT: for a user who is a member already it violates unique_member,   *)
(* throws, and the handler answers 500 before the status update.           *)
GroupController_approveJoinRequest(u, groupId, requestId, notified) ==
    /\ IF ~isAdmin(groupId, u)
       THEN /\ last' = Response("approveJoinRequest", 403, "admin_only")
            /\ UNCHANGED <<group_members, group_join_requests, notifications>>
       ELSE IF \/ requestId \notin 1..Len(group_join_requests)
               \/ group_join_requests[requestId].group_id # groupId
       THEN /\ last' = Response("approveJoinRequest", 404, "not_found")
            /\ UNCHANGED <<group_members, group_join_requests, notifications>>
       ELSE LET userId == group_join_requests[requestId].user_id
            IN IF isMember(groupId, userId) # "none"
               THEN /\ last' = Response("approveJoinRequest", 500, "error")
                    /\ UNCHANGED <<group_members, group_join_requests, notifications>>
               ELSE /\ group_members' = [group_members EXCEPT ![<<groupId, userId>>] = "member"]
                    /\ group_join_requests' = updateJoinRequestStatus(requestId, "approved")
                    /\ IF notified
                       THEN /\ Len(notifications) < MaxNotifications
                            /\ notifications' = Append(notifications,
                                                       [user_id |-> userId,
                                                        type |-> "group_join_approved"])
                            /\ last' = Response("approveJoinRequest", 200, "approved")
                       ELSE /\ UNCHANGED notifications
                            /\ last' = Response("approveJoinRequest", 500, "error")
    /\ UNCHANGED <<socketVars, chats, chat_participants, messages, reqs, group_permissions,
                   group_invite_links, groups, teamVars, channel_members, now, retry>>

(* GroupController.rejectJoinRequest *)
GroupController_rejectJoinRequest(u, groupId, requestId) ==
    /\ IF ~isAdmin(groupId, u)
       THEN /\ last' = Response("rejectJoinRequest", 403, "admin_only")
            /\ UNCHANGED group_join_requests
       ELSE /\ group_join_requests' = updateJoinRequestStatus(requestId, "rejected")
            /\ last' = Response("rejectJoinRequest", 200, "rejected")
    /\ UNCHANGED <<socketVars, chatVars, group_members, group_permissions,
                   group_invite_links, groups, teamVars, channel_members, now, retry>>

(* GroupController.removeMember: only the group_members row is deleted. *)
GroupController_removeMember(u, groupId, userId) ==
    /\ IF ~isAdmin(groupId, u) /\ userId # u
       THEN /\ last' = Response("removeMember", 403, "admin_only")
            /\ UNCHANGED group_members
       ELSE IF created_by(groupId) = userId /\ userId # u
       THEN /\ last' = Response("removeMember", 403, "creator")
            /\ UNCHANGED group_members
       ELSE IF isMember(groupId, userId) = "none"
       THEN /\ last' = Response("removeMember", 404, "not_found")
            /\ UNCHANGED group_members
       ELSE /\ group_members' = [group_members EXCEPT ![<<groupId, userId>>] = "none"]
            /\ last' = Response("removeMember", 200, "ok")
    /\ UNCHANGED <<socketVars, chatVars, group_permissions, group_join_requests,
                   group_invite_links, groups, teamVars, channel_members, now, retry>>

(* GroupModel.updatePermissions: the flags present in the body are        *)
(* written, the others keep their value.                                   *)
updatePermissions(groupId, body) ==
    [f \in DOMAIN group_permissions[groupId] |->
        IF f \in DOMAIN body THEN body[f] ELSE group_permissions[groupId][f]]

(* GroupController.updatePermissions: the flags of the body are stored and *)
(* group_permissions_updated goes to the group room.                       *)
GroupController_updatePermissions(u, groupId, body) ==
    /\ IF ~isAdmin(groupId, u)
       THEN /\ last' = Response("updatePermissions", 403, "admin_only")
            /\ UNCHANGED <<group_permissions, inbox>>
       ELSE LET targets == InRoom(RoomKey("group", groupId))
            IN /\ CanDeliver(targets)
               /\ group_permissions' = [group_permissions EXCEPT
                                           ![groupId] = updatePermissions(groupId, body)]
               /\ inbox' = Deliver(targets,
                                   Event("group_permissions_updated",
                                         RoomKey("group", groupId), u, groupId))
               /\ last' = Response("updatePermissions", 200, "ok")
    /\ UNCHANGED <<sockets, onlineUsers, rooms, chatVars, group_members,
                   group_join_requests, group_invite_links, groups, teamVars,
                   channel_members, now, retry>>

(* GroupController.update with body {name} *)
GroupController_update(u, groupId, name) ==
    /\ IF ~isAdmin(groupId, u) /\ ~group_permissions[groupId].edit_settings
       THEN /\ last' = Response("group_update", 403, "not_allowed")
            /\ UNCHANGED groups
       ELSE /\ groups' = [groups EXCEPT ![groupId].name = name]
            /\ last' = Response("group_update", 200, "ok")
    /\ UNCHANGED <<socketVars, chatVars, group_members, group_permissions,
                   group_join_requests, group_invite_links, teamVars, channel_members, now,
                   retry>>

(* GroupController.addMember (role 'member').  A requester who is neither  *)
(* admin nor moderator only files a join request when the group requires   *)
(* admin approval.  notified is FALSE when NotificationModel.create        *)
(* throws: the rows written before stay and the handler answers 500.       *)
GroupController_addMember(u, groupId, userId, notified) ==
    /\ IF ~isAdminOrModerator(groupId, u) /\ ~group_permissions[groupId].add_members
       THEN /\ last' = Response("addMember", 403, "not_allowed")
            /\ UNCHANGED <<group_members, group_join_requests, chat_participants,
                           notifications, inbox>>
       ELSE IF isMember(groupId, userId) # "none"
       THEN /\ last' = Response("addMember", 400, "already_member")
            /\ UNCHANGED <<group_members, group_join_requests, chat_participants,
                           notifications, inbox>>
       ELSE IF group_permissions[groupId].admin_approval /\ ~isAdminOrModerator(groupId, u)
       THEN CreateJoinRequest("addMember", userId, groupId, notified)
       ELSE /\ group_members' = [group_members EXCEPT ![<<groupId, userId>>] = "member"]
            /\ chat_participants' = chat_participants \cup
                                        {<<c, userId>> : c \in findByGroupId(groupId)}
            /\ UNCHANGED group_join_requests
            /\ IF notified
               THEN LET targets == InRoom(RoomKey("user", userId))
                    IN /\ Len(notifications) < MaxNotifications
                       /\ \A t \in targets : Len(inbox[t]) + 2 <= MaxInbox
                       /\ notifications' = Append(notifications,
                                                  [user_id |-> userId,
                                                   type |-> "group_invite"])
                       /\ inbox' = [t \in SocketIds |->
                                      IF t \in targets
                                      THEN inbox[t] \o
                                           <<Event("notification", RoomKey("user", userId),
                                                   userId, Len(notifications) + 1),
                                             Event("group_added", RoomKey("user", userId),
                                                   userId, groupId)>>
                                      ELSE inbox[t]]
                       /\ last' = Response("addMember", 201, "added")
               ELSE /\ UNCHANGED <<notifications, inbox>>
                    /\ last' = Response("addMember", 500, "error")
    /\ UNCHANGED <<sockets, onlineUsers, rooms, chats, messages, reqs, groups,
                   group_permissions, group_invite_links, teamVars, channel_members, now,
                   retry>>

(***************************************************************************)
(* controllers/channelController.js, behind authenticate, loadTeamContext  *)
(* and requireTeam (routes/channelRoutes.js).  One team, id 1, is          *)
(* modelled: a user's current team is team 1 exactly while the user has a  *)
(* team_members row.                                                       *)
(***************************************************************************)

(* The key of a channel's room as ChannelController.sendMessage builds it. *)
ChannelRoomKey(id) == "channel_" \o ToString(id)

(* loadTeamContext: req.teamId and req.teamRole *)
teamId(u) == IF team_members[u] # "none" THEN 1 ELSE NULL

teamRole(u) == team_members[u]

(* ChannelModel.findById: the channel row unless soft-deleted. *)
ChannelModel_findById(c) ==
    IF c \in DOMAIN channels /\ channels[c].deleted_at = NULL THEN {c} ELSE {}

(* ChannelModel.isMember *)
ChannelModel_isMember(c, u) == <<c, u>> \in channel_members

(* requireTeam and requireTeamAdmin in front of a channel route: the code   *)
(* of the 403 they answer, or "pass".                                      *)
requireTeamAdmin(u) ==
    IF teamId(u) = NULL THEN "NO_TEAM"
    ELSE IF teamRole(u) \notin {"owner", "admin"} THEN "admin_required"
    ELSE "pass"

(* ChannelController.update behind requireTeamAdmin; of the fields of the  *)
(* body only type is part of the model ("none": type not given).           *)
ChannelController_update(u, c, type) ==
    /\ IF requireTeamAdmin(u) # "pass"
       THEN /\ last' = Response("channel_update", 403, requireTeamAdmin(u))
            /\ UNCHANGED channels
       ELSE IF ChannelModel_findById(c) = {}
       THEN /\ last' = Response("channel_update", 404, "not_found")
            /\ UNCHANGED channels
       ELSE IF channels[c].team_id # teamId(u)
       THEN /\ last' = Response("channel_update", 403, "not_in_team")
            /\ UNCHANGED channels
       ELSE IF channels[c].is_default /\ type # "none"
       THEN /\ last' = Response("channel_update", 400, "default")
            /\ UNCHANGED channels
       ELSE /\ channels' = IF type # "none"
                           THEN [channels EXCEPT ![c].type = type]
                           ELSE channels
            /\ last' = Response("channel_update", 200, "ok")
    /\ UNCHANGED <<socketVars, chatVars, groupVars, team_members, team_invites, invreqs,
                   channel_members, now, retry>>

(* ChannelController.delete behind requireTeamAdmin; ChannelModel.softDelete *)
(* stamps deleted_at.                                                      *)
ChannelController_delete(u, c) ==
    /\ IF requireTeamAdmin(u) # "pass"
       THEN /\ last' = Response("channel_delete", 403, requireTeamAdmin(u))
            /\ UNCHANGED channels
       ELSE IF ChannelModel_findById(c) = {}
       THEN /\ last' = Response("channel_delete", 404, "not_found")
            /\ UNCHANGED channels
       ELSE IF channels[c].is_default
       THEN /\ last' = Response("channel_delete", 400, "default")
            /\ UNCHANGED channels
       ELSE /\ channels' = [channels EXCEPT ![c].deleted_at = now]
            /\ last' = Response("channel_delete", 200, "ok")
    /\ UNCHANGED <<socketVars, chatVars, groupVars, team_members, team_invites, invreqs,
                   channel_members, now, retry>>

(* ChannelController.join behind loadTeamContext and requireTeam, up to the *)
(* await of ChannelModel.addMember: the team context is read by the        *)
(* middleware, the channel by ChannelModel.findById.                       *)
ChannelController_join(r, u, c) ==
    /\ reqs[r].pc = "idle"
    /\ IF teamId(u) = NULL
       THEN /\ last' = Response("channel_join", 403, "NO_TEAM")
            /\ UNCHANGED reqs
       ELSE IF ChannelModel_findById(c) = {}
       THEN /\ last' = Response("channel_join", 404, "not_found")
            /\ UNCHANGED reqs
       ELSE IF channels[c].team_id # teamId(u)
       THEN /\ last' = Response("channel_join", 403, "not_in_team")
            /\ UNCHANGED reqs
       ELSE IF channels[c].type = "private" /\ teamRole(u) \notin {"owner", "admin"}
       THEN /\ last' = Response("channel_join", 403, "private")
            /\ UNCHANGED reqs
       ELSE /\ reqs' = [reqs EXCEPT ![r] = [pc |-> "chan_join", kind |-> "join", user |-> u,
                                            target |-> c, chatId |-> NULL, msgId |-> NULL]]
            /\ UNCHANGED last
    /\ UNCHANGED <<socketVars, chats, chat_participants, messages, notifications,
                   groupVars, teamVars, channel_members, now, retry>>

(* ChannelController.join, continued: ChannelModel.addMember (INSERT ... ON *)
(* DUPLICATE KEY UPDATE) and the 200.                                      *)
ChannelController_join_add(r) ==
    /\ reqs[r].pc = "chan_join"
    /\ channel_members' = channel_members \cup {<<reqs[r].target, reqs[r].user>>}
    /\ last' = Response("channel_join", 200, "ok")
    /\ reqs' = [reqs EXCEPT ![r] = IdleReq]
    /\ UNCHANGED <<socketVars, chats, chat_participants, messages, notifications,
                   groupVars, teamVars, now, retry>>

(* ChannelController.leave *)
ChannelController_leave(u, c) ==
    /\ IF teamId(u) = NULL
       THEN /\ last' = Response("channel_leave", 403, "NO_TEAM")
            /\ UNCHANGED channel_members
       ELSE IF ChannelModel_findById(c) = {}
       THEN /\ last' = Response("channel_leave", 404, "not_found")
            /\ UNCHANGED channel_members
       ELSE IF channels[c].is_default
       THEN /\ last' = Response("channel_leave", 400, "default")
            /\ UNCHANGED channel_members
       ELSE /\ channel_members' = channel_members \ {<<c, u>>}
            /\ last' = Response("channel_leave", 200, "ok")
    /\ UNCHANGED <<socketVars, chatVars, groupVars, teamVars, now, retry>>

(* ChannelController.sendMessage up to the chat lookup: the membership     *)
(* check.                                                                  *)
ChannelController_sendMessage(r, u, c) ==
    /\ reqs[r].pc = "idle"
    /\ RoomForSend
    /\ IF teamId(u) = NULL
       THEN /\ last' = Response("channel_sendMessage", 403, "NO_TEAM")
            /\ UNCHANGED reqs
       ELSE IF ~ChannelModel_isMember(c, u)
       THEN /\ last' = Response("channel_sendMessage", 403, "not_member")
            /\ UNCHANGED reqs
       ELSE /\ reqs' = [reqs EXCEPT ![r] = [pc |-> "chan_find", kind |-> "channel",
                                            user |-> u, target |-> c, chatId |-> NULL,
                                            msgId |-> NULL]]
            /\ UNCHANGED last
    /\ UNCHANGED <<socketVars, chats, chat_participants, messages, notifications,
                   groupVars, teamVars, channel_members, now, retry>>

(* The chats that already hold a message of the channel: SELECT id FROM    *)
(* chats WHERE type = 'group' AND group_id IS NULL AND id IN (SELECT       *)
(* chat_id FROM messages WHERE channel_id = ?) LIMIT 1                     *)
ChannelChats(c) ==
    {k \in 1..Len(chats) :
        /\ chats[k].type = "group"
        /\ chats[k].group_id = NULL
        /\ \E m \in 1..Len(messages) :
              messages[m].channel_id = c /\ messages[m].chat_id = k}

ChannelController_sendMessage_findChat(r) ==
    /\ reqs[r].pc = "chan_find"
    /\ IF ChannelChats(reqs[r].target) = {}
       THEN reqs' = [reqs EXCEPT ![r].pc = "chan_create"]
       ELSE \E k \in ChannelChats(reqs[r].target) :
               reqs' = [reqs EXCEPT ![r].pc = "chan_insert", ![r].chatId = k]
    /\ UNCHANGED <<socketVars, chats, chat_participants, messages, notifications,
                   groupVars, teamVars, channel_members, now, last, retry>>

(* INSERT INTO chats (type) VALUES ('group') *)
ChannelController_sendMessage_createChat(r) ==
    /\ reqs[r].pc = "chan_create"
    /\ Len(chats) < MaxChats
    /\ chats' = Append(chats, [type |-> "group", group_id |-> NULL])
    /\ reqs' = [reqs EXCEPT ![r].pc = "chan_insert", ![r].chatId = Len(chats) + 1]
    /\ UNCHANGED <<socketVars, chat_participants, messages, notifications,
                   groupVars, teamVars, channel_members, now, last, retry>>

(* INSERT INTO messages (chat_id, channel_id, team_id, sender_id, ...) *)
ChannelController_sendMessage_insert(r) ==
    /\ reqs[r].pc = "chan_insert"
    /\ messages' = Append(messages, NewMessage(reqs[r].chatId, reqs[r].user, reqs[r].target))
    /\ reqs' = [reqs EXCEPT ![r].pc = "reread", ![r].msgId = Len(messages) + 1]
    /\ UNCHANGED <<socketVars, chats, chat_participants, notifications, groupVars,
                   teamVars, channel_members, now, last, retry>>

(* The re-read of the row, the channel_message emit and the 201. *)
ChannelController_sendMessage_emit(r) ==
    /\ reqs[r].pc = "reread"
    /\ reqs[r].kind = "channel"
    /\ LET targets == InRoom(ChannelRoomKey(reqs[r].target))
       IN /\ CanDeliver(targets)
          /\ inbox' = Deliver(targets,
                              Event("channel_message", ChannelRoomKey(reqs[r].target),
                                    reqs[r].user, reqs[r].msgId))
    /\ last' = Response("channel_sendMessage", 201, "ok")
    /\ reqs' = [reqs EXCEPT ![r] = IdleReq]
    /\ UNCHANGED <<sockets, onlineUsers, rooms, chats, chat_participants, messages,
                   notifications, groupVars, teamVars, channel_members, now, retry>>

(* ChannelController.getMessages: the page is read and                     *)
(* ChannelModel.updateLastRead stamps the member's last_read_at, a column  *)
(* of channel_members that is not part of the model; no message row is     *)
(* written.                                                                *)
ChannelController_getMessages(u, c) ==
    /\ IF teamId(u) = NULL
       THEN last' = Response("channel_getMessages", 403, "NO_TEAM")
       ELSE IF ~ChannelModel_isMember(c, u)
       THEN last' = Response("channel_getMessages", 403, "not_member")
       ELSE last' = Response("channel_getMessages", 200, "ok")
    /\ UNCHANGED <<socketVars, chatVars, groupVars, teamVars, channel_members, now, retry>>

(***************************************************************************)
(* Team invites: InviteController (src/unnamed/part_005), InviteModel,     *)
(* TeamModel (src/unnamed/part_013).  An invite's token is identified with *)
(* its row id and an email address with the user that owns it.  Invites    *)
(* expire after 7 days; no invite expires within a behaviour.              *)
(***************************************************************************)

(* TeamModel.isMember / TeamModel.isAdmin *)
TeamModel_isMember(u) == team_members[u] # "none"

TeamModel_isAdmin(u) == team_members[u] \in {"owner", "admin"}

(* TeamModel.getMemberCount *)
getMemberCount == Cardinality({u \in TeamUsers : team_members[u] # "none"})

(* The rows counted by InviteModel.countPendingByTeamId and returned by    *)
(* findPendingByEmail: not accepted (and not deleted).                     *)
PendingInvites ==
    {i \in 1..Len(team_invites) : ~team_invites[i].deleted /\ team_invites[i].accepted_at = NULL}

countAcceptedByTeamId ==
    Cardinality({i \in 1..Len(team_invites) :
                    ~team_invites[i].deleted /\ team_invites[i].accepted_at # NULL})

countPendingByTeamId == Cardinality(PendingInvites)

findPendingByEmail(email) == {i \in PendingInvites : team_invites[i].email = email}

(* InviteModel.accept: UPDATE team_invites SET accepted_at =               *)
(* CURRENT_TIMESTAMP WHERE token = ? AND accepted_at IS NULL               *)
InviteModel_accept(i) ==
    [j \in 1..Len(team_invites) |->
        IF j = i /\ ~team_invites[j].deleted /\ team_invites[j].accepted_at = NULL
        THEN [team_invites[j] EXCEPT !.accepted_at = now]
        ELSE team_invites[j]]

(* InviteController.create behind verifyTeamAdmin, up to InviteModel.create: *)
(* the member limit check and the already-a-member check.                  *)
InviteController_create(r, u, email) ==
    /\ invreqs[r].pc = "idle"
    /\ IF ~TeamModel_isAdmin(u)
       THEN /\ last' = Response("invite_create", 403, "not_admin")
            /\ UNCHANGED invreqs
       ELSE IF getMemberCount + countPendingByTeamId >= DefaultMemberLimit
       THEN /\ last' = Response("invite_create", 403, "MEMBER_LIMIT_REACHED")
            /\ UNCHANGED invreqs
       ELSE IF TeamModel_isMember(email)
       THEN /\ last' = Response("invite_create", 400, "already_member")
            /\ UNCHANGED invreqs
       ELSE /\ invreqs' = [invreqs EXCEPT ![r] = [pc |-> "inv_insert", kind |-> "create",
                                                  user |-> u, invite |-> email]]
            /\ UNCHANGED last
    /\ UNCHANGED <<socketVars, chatVars, groupVars, team_members, team_invites, channels,
                   channel_members, now, retry>>

(* InviteModel.create and the 201: a pending invite of the same email is   *)
(* updated in place, otherwise a row is inserted.                          *)
InviteController_create_insert(r) ==
    /\ invreqs[r].pc = "inv_insert"
    /\ IF findPendingByEmail(invreqs[r].invite) # {}
       THEN UNCHANGED team_invites
       ELSE /\ Len(team_invites) < MaxInvites
            /\ team_invites' = Append(team_invites,
                                      [email |-> invreqs[r].invite, accepted_at |-> NULL,
                                       deleted |-> FALSE])
    /\ last' = Response("invite_create", 201, "ok")
    /\ invreqs' = [invreqs EXCEPT ![r] = IdleInvReq]
    /\ UNCHANGED <<socketVars, chatVars, groupVars, team_members, channels,
                   channel_members, now, retry>>

(* InviteController.delete *)
InviteController_delete(u, i) ==
    /\ IF i \notin 1..Len(team_invites) \/ team_invites[i].deleted
       THEN /\ last' = Response("invite_delete", 404, "not_found")
            /\ UNCHANGED team_invites
       ELSE IF ~TeamModel_isAdmin(u)
       THEN /\ last' = Response("invite_delete", 403, "not_admin")
            /\ UNCHANGED team_invites
       ELSE /\ team_invites' = [team_invites EXCEPT ![i].deleted = TRUE]
            /\ last' = Response("invite_delete", 200, "ok")
    /\ UNCHANGED <<socketVars, chatVars, groupVars, team_members, invreqs, channels,
                   channel_members, now, retry>>

(* InviteController.accept up to TeamModel.addMember: the token, the email, *)
(* the membership and the member limit are checked; an invite accepted by  *)
(* a member, or refused for the member limit, is marked used.              *)
InviteController_accept(r, u, i) ==
    /\ invreqs[r].pc = "idle"
    /\ IF i \notin 1..Len(team_invites) \/ team_invites[i].deleted
       THEN /\ last' = Response("invite_accept", 400, "invalid_token")
            /\ UNCHANGED <<invreqs, team_invites>>
       ELSE IF team_invites[i].accepted_at # NULL
       THEN /\ last' = Response("invite_accept", 400, "already_used")
            /\ UNCHANGED <<invreqs, team_invites>>
       ELSE IF team_invites[i].email # u
       THEN /\ last' = Response("invite_accept", 403, "different_email")
            /\ UNCHANGED <<invreqs, team_invites>>
       ELSE IF TeamModel_isMember(u)
       THEN /\ team_invites' = InviteModel_accept(i)
            /\ last' = Response("invite_accept", 200, "already_member")
            /\ UNCHANGED invreqs
       ELSE IF getMemberCount >= DefaultMemberLimit
       THEN /\ team_invites' = InviteModel_accept(i)
            /\ last' = Response("invite_accept", 403, "MEMBER_LIMIT_REACHED")
            /\ UNCHANGED invreqs
       ELSE /\ invreqs' = [invreqs EXCEPT ![r] = [pc |-> "acc_add", kind |-> "accept",
                                                  user |-> u, invite |-> i]]
            /\ UNCHANGED <<last, team_invites>>
    /\ UNCHANGED <<socketVars, chatVars, groupVars, team_members, channels,
                   channel_members, now, retry>>

(* The default channels of team 1. *)
DefaultChannels == {k \in DOMAIN channels : channels[k].team_id = 1 /\ channels[k].is_default}

(* TeamModel.addMember without its transaction: when a channel_members     *)
(* INSERT fails (ok = FALSE) the team_members row written before it stays. *)
TeamModel_addMemberAutocommit(u, role, ok) ==
    /\ team_members' = [team_members EXCEPT ![u] = role]
    /\ channel_members' = IF ok
                          THEN channel_members \cup {<<c, u>> : c \in DefaultChannels}
                          ELSE channel_members

(* TeamModel.addMember: one transaction writing the team_members row (ON   *)
(* DUPLICATE KEY UPDATE role) and the default channel memberships; when a  *)
(* write fails (ok = FALSE) the catch rolls back and rethrows.             *)
TeamModel_addMember(u, role, ok) ==
    IF ok
    THEN /\ team_members' = [team_members EXCEPT ![u] = role]
         /\ channel_members' = channel_members \cup {<<c, u>> : c \in DefaultChannels}
    ELSE UNCHANGED <<team_members, channel_members>>

(* InviteController.accept, continued: TeamModel.addMember, then           *)
(* InviteModel.accept, then the 200; the 500 of the outer catch when       *)
(* TeamModel.addMember throws.                                             *)
InviteController_accept_add(r, ok) ==
    /\ invreqs[r].pc = "acc_add"
    /\ TeamModel_addMember(invreqs[r].user, "member", ok)
    /\ IF ok
       THEN /\ team_invites' = InviteModel_accept(invreqs[r].invite)
            /\ last' = Response("invite_accept", 200, "ok")
       ELSE /\ UNCHANGED team_invites
            /\ last' = Response("invite_accept", 500, "error")
    /\ invreqs' = [invreqs EXCEPT ![r] = IdleInvReq]
    /\ UNCHANGED <<socketVars, chatVars, groupVars, channels, now, retry>>

(* TeamController.removeMember behind verifyTeamAdmin; TeamModel.removeMember *)
(* deletes the team_members row and the user's memberships of the team's   *)
(* channels in one transaction.                                            *)
TeamController_removeMember(u, target) ==
    /\ IF ~TeamModel_isAdmin(u)
       THEN /\ last' = Response("team_removeMember", 403, "not_admin")
            /\ UNCHANGED <<team_members, channel_members>>
       ELSE IF target = TeamOwner
       THEN /\ last' = Response("team_removeMember", 400, "owner")
            /\ UNCHANGED <<team_members, channel_members>>
       ELSE IF team_members[u] = "admin" /\ team_members[target] # "member"
       THEN /\ last' = Response("team_removeMember", 403, "admins_remove_members_only")
            /\ UNCHANGED <<team_members, channel_members>>
       ELSE /\ team_members' = [team_members EXCEPT ![target] = "none"]
            /\ channel_members' = {p \in channel_members :
                                     ~(p[2] = target /\ channels[p[1]].team_id = 1)}
            /\ last' = Response("team_removeMember", 200, "ok")
    /\ UNCHANGED <<socketVars, chatVars, groupVars, team_invites, invreqs, channels, now,
                   retry>>

(***************************************************************************)
(* services/socketHandler.js: the send_message relay                       *)
(***************************************************************************)

(* socket.on('send_message'): data = {chatId, receiverId, groupId,         *)
(* message}, all chosen by the client; relayed to the group room, else to  *)
(* the receiver's user room, without the sending socket.                   *)
send_message(s, groupId, receiverId, messageId) ==
    /\ sockets[s].st = "open"
    /\ IF groupId # NULL
       THEN LET targets == InRoomBut(RoomKey("group", groupId), s)
            IN /\ CanDeliver(targets)
               /\ inbox' = Deliver(targets,
                                   Event("receive_message", RoomKey("group", groupId),
                                         sockets[s].user, messageId))
       ELSE IF receiverId # NULL
       THEN LET targets == InRoomBut(RoomKey("user", receiverId), s)
            IN /\ CanDeliver(targets)
               /\ inbox' = Deliver(targets,
                                   Event("receive_message", RoomKey("user", receiverId),
                                         sockets[s].user, messageId))
       ELSE UNCHANGED inbox
    /\ UNCHANGED <<sockets, onlineUsers, rooms, chatVars, groupVars, teamVars,
                   channel_members, now, last, retry>>

(***************************************************************************)
(* Initial state: the server has just started, no socket is connected.     *)
(* The database holds two groups, 7 (created by user 7) and 8 (created by  *)
(* user 8), each as GroupController.create leaves it: the creator is the   *)
(* admin, the permissions are the column defaults, the group has a chat    *)
(* (ids 1 and 2) with the creator as its participant.                      *)
(***************************************************************************)
DefaultPermissions ==
    [edit_settings |-> FALSE, send_message |-> TRUE, add_members |-> FALSE,
     invite_link |-> FALSE, admin_approval |-> FALSE]

(* The common shape of the 'typing', 'stop_typing' and 'message_seen'      *)
(* listeners: socket.to(group room) when the payload names a group, else   *)
(* socket.to(user room of the receiver), else nothing.                     *)
relayIndicator(name, s, chatId, receiverId, groupId) ==
    /\ sockets[s].st = "open"
    /\ IF groupId # NULL
       THEN LET targets == InRoomBut(RoomKey("group", groupId), s)
            IN /\ CanDeliver(targets)
               /\ inbox' = Deliver(targets, Event(name, RoomKey("group", groupId),
                                                  sockets[s].user, chatId))
       ELSE IF receiverId # NULL
       THEN LET targets == InRoomBut(RoomKey("user", receiverId), s)
            IN /\ CanDeliver(targets)
               /\ inbox' = Deliver(targets, Event(name, RoomKey("user", receiverId),
                                                  sockets[s].user, chatId))
       ELSE UNCHANGED inbox
    /\ UNCHANGED <<sockets, onlineUsers, rooms, chatVars, groupVars, teamVars,
                   channel_members, now, last, retry>>

(* socket.on('typing'). *)
typing(s, chatId, receiverId, groupId) ==
    relayIndicator("typing", s, chatId, receiverId, groupId)

(* socket.on('stop_typing'). *)
stop_typing(s, chatId, receiverId, groupId) ==
    relayIndicator("stop_typing", s, chatId, receiverId, groupId)

(* socket.on('message_seen'). *)
message_seen(s, chatId, receiverId, groupId) ==
    relayIndicator("message_seen", s, chatId, receiverId, groupId)

InitSocket ==
    /\ sockets = [s \in SocketIds |-> [user |-> NULL, st |-> "new"]]
    /\ onlineUsers = [u \in SocketUsers |-> NoSocket]
    /\ rooms = [s \in SocketIds |-> {}]
    /\ inbox = [s \in SocketIds |-> <<>>]

InitGroup ==
    /\ groups = [g \in GroupIds |-> [name |-> 0]]
    /\ group_members = [p \in GroupIds \X GroupUsers |->
                          IF p[1] = p[2] THEN "admin" ELSE "none"]
    /\ group_permissions = [g \in GroupIds |-> DefaultPermissions]
    /\ group_join_requests = <<>>
    /\ group_invite_links = <<>>

InitChat ==
    /\ chats = <<[type |-> "group", group_id |-> 7], [type |-> "group", group_id |-> 8]>>
    /\ chat_participants = {<<1, 7>>, <<2, 8>>}
    /\ messages = <<>>
    /\ notifications = <<>>
    /\ reqs = [r \in ReqIds |-> IdleReq]

(* Team 1 as TeamModel.create and three accepted invites leave it: owner 7 *)
(* and members 8, 9, 10, all in the default channel 1; user 7 created the  *)
(* public channel 2 and the private channel 3.  Channel 4 belongs to       *)
(* another team.  Users 11 and 12 are in no team.                          *)
(***************************************************************************)
(* queryWithRetry (src/config/db.js), called by the authenticate           *)
(* middleware.  An outcome of pool.query is a record: ok, or an error with *)
(* its code ("none": the error has no code) and its fatal flag.            *)
(***************************************************************************)
TransientCodes ==
    {"ECONNRESET", "PROTOCOL_CONNECTION_LOST", "ECONNREFUSED", "ETIMEDOUT", "EPIPE"}

QueryOutcomes ==
    {[ok |-> TRUE, code |-> "none", fatal |-> FALSE]}
       \cup {[ok |-> FALSE, code |-> c, fatal |-> f] :
                c \in {"none", "ETIMEDOUT", "ER_DUP_ENTRY"}, f \in BOOLEAN}

IdleRetry == [pc |-> "idle", attempts |-> 0, i |-> 0, log |-> <<>>]

(* isTransientError: false without a code, else a transient code or fatal. *)
isTransientError(err) ==
    IF err.code = "none" THEN FALSE ELSE err.code \in TransientCodes \/ err.fatal

(* The retry condition without its bound on i. *)
shouldRetryUnbounded(err, i, attempts) == isTransientError(err)

(* The condition of the catch block: isTransientError(err) && i < attempts - 1. *)
shouldRetry(err, i, attempts) == isTransientError(err) /\ i < attempts - 1

(* The call: let lastErr; for (let i = 0; i < attempts; ...). *)
queryWithRetry(attempts) ==
    /\ retry.pc = "idle"
    /\ retry' = [pc |-> IF 0 < attempts THEN "query" ELSE "thrown",
                 attempts |-> attempts, i |-> 0, log |-> <<>>]
    /\ UNCHANGED <<socketVars, chatVars, groupVars, teamVars, channel_members, now, last>>

(* One pool.query settles: return its result, or catch the error and       *)
(* either start the backoff or throw.                                      *)
queryWithRetry_query(outcome) ==
    /\ retry.pc = "query"
    /\ retry' = [retry EXCEPT
                   !.log = Append(@, outcome),
                   !.pc = IF outcome.ok THEN "returned"
                          ELSE IF shouldRetry(outcome, retry.i, retry.attempts)
                          THEN "backoff" ELSE "thrown"]
    /\ UNCHANGED <<socketVars, chatVars, groupVars, teamVars, channel_members, now, last>>

(* The backoff timer fires: continue, i++, the loop test, and the throw    *)
(* after the loop.                                                         *)
queryWithRetry_backoff ==
    /\ retry.pc = "backoff"
    /\ retry' = [retry EXCEPT
                   !.i = @ + 1,
                   !.pc = IF retry.i + 1 < retry.attempts THEN "query" ELSE "thrown"]
    /\ UNCHANGED <<socketVars, chatVars, groupVars, teamVars, channel_members, now, last>>

(* authenticate resumes: with the rows it goes on; in its catch it answers *)
(* 503 for an error with a transient code and 500 otherwise.               *)
authenticate_resume ==
    /\ retry.pc \in {"returned", "thrown"}
    /\ retry' = IdleRetry
    /\ IF retry.pc = "returned"
       THEN UNCHANGED last
       ELSE IF retry.log # <<>> /\ retry.log[Len(retry.log)].code \in TransientCodes
       THEN last' = Response("authenticate", 503, "database")
       ELSE last' = Response("authenticate", 500, "error")
    /\ UNCHANGED <<socketVars, chatVars, groupVars, teamVars, channel_members, now>>

InitTeam ==
    /\ team_members = [u \in TeamUsers |->
                         IF u = 7 THEN "owner" ELSE IF u \in {8, 9, 10} THEN "member"
                         ELSE "none"]
    /\ team_invites = <<>>
    /\ invreqs = [r \in InvReqIds |-> IdleInvReq]
    /\ channels = [c \in ChannelIds |->
                     [team_id |-> IF c = 4 THEN 2 ELSE 1,
                      type |-> IF c = 3 THEN "private" ELSE "public",
                      is_default |-> (c = 1),
                      deleted_at |-> NULL]]
    /\ channel_members = {<<1, u>> : u \in {7, 8, 9, 10}} \cup {<<2, 7>>, <<3, 7>>}

Init ==
    /\ InitSocket
    /\ InitGroup
    /\ InitChat
    /\ InitTeam
    /\ now = 1
    /\ last = NoResponse
    /\ retry = IdleRetry

(***************************************************************************)
(* Presence: connects and disconnects only.                                *)
(***************************************************************************)
NextPresence ==
    \/ \E s \in SocketIds, u \in SocketUsers : Connect(s, u)
    \/ \E s \in SocketIds : DisconnectDuringLookup(s)
    \/ \E s \in SocketIds : ConnectFinish(s)
    \/ \E s \in SocketIds : Disconnect(s)

SpecPresence == Init /\ [][NextPresence]_vars

LiveSessions(u) == {t \in SocketIds : Connected(t) /\ sockets[t].user = u}

(* C1: presence broadcasts follow the user's live-session count: a         *)
(* disconnect emits user_offline only when it closes the user's last live  *)
(* session, and the connection handler emits user_online only when the     *)
(* connecting session is the user's only live session.                     *)
C1_PresenceFollowsSessions ==
    [][\A s \in SocketIds :
          /\ (sockets[s].st = "open" /\ sockets'[s].st = "closed"
                /\ LiveSessions(sockets[s].user) \ {s} # {})
             => inbox' = inbox
          /\ (sockets[s].st \in {"lookup", "lost"} /\ sockets'[s].st \in {"open", "zombie"}
                /\ LiveSessions(sockets[s].user) # {s})
             => inbox' = inbox]_vars

(* C11: a user with at least one live session is reported online by       *)
(* isUserOnline and is listed by getOnlineUsers.                           *)
C11_LiveUserOnline ==
    \A u \in SocketUsers :
        LiveSessions(u) # {} => (isUserOnline(u) /\ u \in getOnlineUsers)

(***************************************************************************)
(* Delivery timestamps: user 7 sends private messages to user 8, both      *)
(* read and mark the chat, with the clock advancing.                       *)
(***************************************************************************)
ChatUsers == {7, 8}

NextDelivery ==
    \/ sendPrivateMessage(1, 7, 8)
    \/ \E u, v \in ChatUsers : u # v /\ getPrivateChat(1, u, v)
    \/ getOrCreatePrivateChat_find(1)
    \/ getOrCreatePrivateChat_create(1)
    \/ MessageModel_create(1)
    \/ sendPrivateMessage_emit(1)
    \/ \E ok \in BOOLEAN : sendPrivateMessage_notify(1, ok)
    \/ getPrivateChat_seen(1)
    \/ \E u \in ChatUsers, c \in 1..Len(chats) : getMessages(u, c)
    \/ \E u \in ChatUsers, c \in 1..Len(chats) : ChatController_markAsSeen(u, c)
    \/ \E m \in 1..Len(messages) : SetDelivered(m)
    \/ Tick

SpecDelivery == Init /\ [][NextDelivery]_vars

(* C4: once seen_at (delivered_at) of a message is set, no step changes    *)
(* or clears it.                                                           *)
C4_TimestampsMonotonic ==
    [][\A m \in 1..Len(messages) :
          /\ messages[m].seen_at # NULL => messages'[m].seen_at = messages[m].seen_at
          /\ messages[m].delivered_at # NULL
             => messages'[m].delivered_at = messages[m].delivered_at]_vars

(* Two messages of one sender in one chat that were marked seen by two     *)
(* different markAsSeen calls (the second call found the first message     *)
(* already seen), and two messages delivered at different times.           *)
C4_Witness ==
    \E m1, m2 \in 1..Len(messages) :
        /\ messages[m1].chat_id = messages[m2].chat_id
        /\ messages[m1].sender_id = messages[m2].sender_id
        /\ messages[m1].seen_at # NULL
        /\ messages[m2].seen_at # NULL
        /\ messages[m1].seen_at < messages[m2].seen_at
        /\ messages[m1].delivered_at # NULL
        /\ messages[m2].delivered_at # NULL
        /\ messages[m1].delivered_at < messages[m2].delivered_at

(* C13: when a participant's getMessages or getPrivateChat completes,      *)
(* every message of that chat not sent by the fetcher has delivered_at     *)
(* set.                                                                    *)
C13_FetchedIsDelivered ==
    [][/\ \A u \in ChatUsers, c \in 1..Len(chats) :
            (isParticipant(c, u) /\ getMessages(u, c))
            => \A m \in 1..Len(messages) :
                  (messages[m].chat_id = c /\ messages[m].sender_id # u)
                  => messages'[m].delivered_at # NULL
       /\ \A r \in ReqIds :
            (reqs[r].pc = "seen" /\ getPrivateChat_seen(r))
            => \A m \in 1..Len(messages) :
                  (messages[m].chat_id = reqs[r].chatId /\ messages[m].sender_id # reqs[r].user)
                  => messages'[m].delivered_at # NULL
      ]_vars

(***************************************************************************)
(* Rooms: socket 1 connects as user 7 and socket 2 as user 8; both join    *)
(* and leave group and chat rooms 7 and 8 while user 7, admin of group 7,  *)
(* sends group messages over HTTP.                                         *)
(***************************************************************************)
RoomSockets == {1, 2}

NextRooms ==
    \/ Connect(1, 7)
    \/ Connect(2, 8)
    \/ \E s \in RoomSockets : ConnectFinish(s)
    \/ \E s \in RoomSockets, g \in RoomIds : join_group(s, g)
    \/ \E s \in RoomSockets, g \in RoomIds : leave_group(s, g)
    \/ \E s \in RoomSockets, c \in RoomIds : join_chat(s, c)
    \/ \E s \in RoomSockets, c \in RoomIds : leave_chat(s, c)
    \/ GroupController_sendMessage(1, 7, 7)
    \/ MessageModel_create(1)
    \/ GroupController_sendMessage_emit(1)

SpecRooms == Init /\ [][NextRooms]_vars

(* The group a stored message was sent into (NULL for a private chat). *)
GroupOfMessage(m) == chats[messages[m].chat_id].group_id

Received(s) == IF Len(inbox'[s]) > Len(inbox[s]) THEN {inbox'[s][Len(inbox'[s])]} ELSE {}

(* C3: the receive_message of a message sent into group g is delivered to  *)
(* exactly the connected sessions that joined the room keyed group:<g>;    *)
(* a session that joined only group:<other> or chat:<g> does not get it,   *)
(* and the four prefixed keys of one number are four different rooms.      *)
C3_RoomIsolation ==
    [][/\ \A r \in ReqIds :
            (reqs[r].pc = "reread" /\ reqs[r].kind = "group" /\ reqs'[r].pc = "idle")
            => \A s \in SocketIds :
                  LET key == "group:" \o ToString(reqs[r].target)
                  IN IF Connected(s) /\ key \in rooms[s]
                     THEN /\ Received(s) # {}
                          /\ \A e \in Received(s) :
                                /\ e.event = "receive_message"
                                /\ e.id = reqs[r].msgId
                                /\ GroupOfMessage(e.id) = reqs[r].target
                     ELSE Received(s) = {}
       /\ \A n \in RoomIds :
            Cardinality({RoomKey("user", n), RoomKey("group", n), RoomKey("chat", n),
                         ChannelRoomKey(n)}) = 4
      ]_vars

(* A group 7 message has just been delivered to a session in room group:7  *)
(* while another connected session, which joined group:8 and chat:7 but    *)
(* not group:7, received nothing.                                          *)
C3_Witness ==
    \E s, t \in SocketIds :
        /\ s # t
        /\ Connected(s) /\ Connected(t)
        /\ "group:7" \in rooms[s]
        /\ {"group:8", "chat:7"} \subseteq rooms[t]
        /\ "group:7" \notin rooms[t]
        /\ \E i \in 1..Len(inbox[s]) :
              /\ inbox[s][i].event = "receive_message"
              /\ inbox[s][i].room = "group:7"
        /\ \A i \in 1..Len(inbox[t]) : inbox[t][i].event # "receive_message"
        /\ last = Response("group_sendMessage", 201, "ok")

(***************************************************************************)
(* Membership gates: users 7 and 8 send into groups 7 and 8 (each is a     *)
(* member of the own group only); users 7 and 8 (team members) and 11 (no  *)
(* team) join, leave and send into channels 1..4.                          *)
(***************************************************************************)
AccessUsers == {7, 8, 11}

NextAccess ==
    \/ \E u \in {7, 8}, g \in GroupIds : GroupController_sendMessage(1, u, g)
    \/ MessageModel_create(1)
    \/ GroupController_sendMessage_emit(1)
    \/ \E u \in AccessUsers, c \in ChannelIds : ChannelController_join(2, u, c)
    \/ ChannelController_join_add(2)
    \/ \E u \in AccessUsers, c \in ChannelIds : ChannelController_leave(u, c)
    \/ \E u \in AccessUsers, c \in ChannelIds : ChannelController_sendMessage(1, u, c)
    \/ ChannelController_sendMessage_findChat(1)
    \/ ChannelController_sendMessage_createChat(1)
    \/ ChannelController_sendMessage_insert(1)
    \/ ChannelController_sendMessage_emit(1)

SpecAccess == Init /\ [][NextAccess]_vars

Rejected403 ==
    /\ last'.status = 403
    /\ UNCHANGED <<messages, chats, chat_participants, group_members, channel_members, reqs,
                   retry>>

(* C2: a send-message, join or leave by an actor without a membership edge *)
(* in the group or channel is answered 403 and changes no message, chat or *)
(* membership row.                                                         *)
C2_NonMemberRejected ==
    [][/\ \A u \in {7, 8}, g \in GroupIds :
            (isMember(g, u) = "none" /\ GroupController_sendMessage(1, u, g))
            => Rejected403
       /\ \A u \in AccessUsers, c \in ChannelIds :
            (~ChannelModel_isMember(c, u)
               /\ (\/ ChannelController_sendMessage(1, u, c)
                   \/ ChannelController_join(2, u, c)
                   \/ ChannelController_leave(u, c)))
            => Rejected403
      ]_vars

(***************************************************************************)
(* Private chats: users 7 and 8 send to and open the chat with each other  *)
(* through two concurrent requests while user 8 has a session (socket 1).  *)
(***************************************************************************)
NextChat ==
    \/ Connect(1, 8)
    \/ ConnectFinish(1)
    \/ \E r \in ReqIds, u, v \in ChatUsers : u # v /\ sendPrivateMessage(r, u, v)
    \/ \E r \in ReqIds, u, v \in ChatUsers : u # v /\ getPrivateChat(r, u, v)
    \/ \E r \in ReqIds : getOrCreatePrivateChat_find(r)
    \/ \E r \in ReqIds : getOrCreatePrivateChat_create(r)
    \/ \E r \in ReqIds : MessageModel_create(r)
    \/ \E r \in ReqIds : sendPrivateMessage_emit(r)
    \/ \E r \in ReqIds, ok \in BOOLEAN : sendPrivateMessage_notify(r, ok)
    \/ \E r \in ReqIds : getPrivateChat_seen(r)

SpecChat == Init /\ [][NextChat]_vars

(* The private chats whose participants are exactly u and v. *)
DirectChats(u, v) ==
    {c \in 1..Len(chats) :
        /\ chats[c].type = "private"
        /\ {p[2] : p \in {q \in chat_participants : q[1] = c}} = {u, v}}

(* C5: at most one private chat exists for the pair of users 7 and 8, and  *)
(* all private messages between them are stored in one chat.               *)
C5_DirectChatUnique ==
    /\ Cardinality(DirectChats(7, 8)) <= 1
    /\ \A m, n \in 1..Len(messages) :
          (messages[m].chat_id \in DirectChats(7, 8) /\ messages[n].chat_id \in DirectChats(7, 8))
          => messages[m].chat_id = messages[n].chat_id

(* The positions of the receive_message events of message m in a session's *)
(* inbox.                                                                  *)
ReceivedAt(s, m) ==
    {i \in 1..Len(inbox[s]) : inbox[s][i].event = "receive_message" /\ inbox[s][i].id = m}

(* C7: a session that received the receive_message events of two messages  *)
(* of one conversation received them in the order of the inserts (message  *)
(* ids are assigned in commit order).                                      *)
C7_FanoutInCommitOrder ==
    \A s \in SocketIds : \A a, b \in 1..Len(messages) :
        (a < b /\ messages[a].chat_id = messages[b].chat_id)
        => \A i \in ReceivedAt(s, a), j \in ReceivedAt(s, b) : i < j

(***************************************************************************)
(* Relay: user 7 (socket 2) posts messages to user 8 and into group 7 over *)
(* HTTP and relays its own stored messages through the socket              *)
(* 'send_message' event; user 8 listens on socket 1.                       *)
(***************************************************************************)
NextRelay ==
    \/ Connect(1, 8)
    \/ Connect(2, 7)
    \/ \E s \in RoomSockets : ConnectFinish(s)
    \/ join_group(1, 7)
    \/ sendPrivateMessage(1, 7, 8)
    \/ getOrCreatePrivateChat_find(1)
    \/ getOrCreatePrivateChat_create(1)
    \/ GroupController_sendMessage(1, 7, 7)
    \/ MessageModel_create(1)
    \/ sendPrivateMessage_emit(1)
    \/ \E ok \in BOOLEAN : sendPrivateMessage_notify(1, ok)
    \/ GroupController_sendMessage_emit(1)
    \/ \E m \in 1..Len(messages) :
          /\ messages[m].sender_id = sockets[2].user
          /\ IF GroupOfMessage(m) # NULL
             THEN send_message(2, GroupOfMessage(m), NULL, m)
             ELSE send_message(2, NULL, 8, m)

SpecRelay == Init /\ [][NextRelay]_vars

(* C6: no session holds two receive_message events for the same message. *)
C6_AtMostOnce ==
    \A s \in SocketIds : \A m \in 1..Len(messages) : Cardinality(ReceivedAt(s, m)) <= 1

(***************************************************************************)
(* Team capacity: owner 7 (and member 8, who is no admin) invites users 11 *)
(* and 12, cancels invites and removes member 8; users 11 and 12 accept.   *)
(***************************************************************************)
Invitees == {11, 12}

NextTeam ==
    \/ \E r \in InvReqIds, u \in {7, 8}, e \in Invitees \cup {9} : InviteController_create(r, u, e)
    \/ \E r \in InvReqIds : InviteController_create_insert(r)
    \/ \E i \in 1..MaxInvites : InviteController_delete(7, i)
    \/ \E r \in InvReqIds, u \in Invitees, i \in 1..MaxInvites : InviteController_accept(r, u, i)
    \/ \E r \in InvReqIds, ok \in BOOLEAN : InviteController_accept_add(r, ok)
    \/ TeamController_removeMember(7, 8)

SpecTeam == Init /\ [][NextTeam]_vars

(* C8: an invite creation by a team admin while members + pending invites  *)
(* have reached the member limit (5) is answered 403 MEMBER_LIMIT_REACHED  *)
(* and creates no invite row; an accept of a valid invite by its addressee *)
(* while the team holds member_limit members is answered 403               *)
(* MEMBER_LIMIT_REACHED and adds no team member.                           *)
C8_CapacityEnforced ==
    [][/\ (getMemberCount + Cardinality(PendingInvites) >= 5)
          => \A r \in InvReqIds, u \in {7, 8}, e \in Invitees \cup {9} :
                (TeamModel_isAdmin(u) /\ InviteController_create(r, u, e))
                => /\ last' = Response("invite_create", 403, "MEMBER_LIMIT_REACHED")
                   /\ UNCHANGED <<team_invites, team_members, invreqs>>
       /\ (getMemberCount >= 5)
          => \A r \in InvReqIds, u \in Invitees, i \in PendingInvites :
                (/\ team_invites[i].email = u
                 /\ ~TeamModel_isMember(u)
                 /\ InviteController_accept(r, u, i))
                => /\ last' = Response("invite_accept", 403, "MEMBER_LIMIT_REACHED")
                   /\ UNCHANGED <<team_members, channel_members, invreqs>>
      ]_vars

(* With 4 members and 1 pending invite a second invite has just been       *)
(* refused for the member limit, after an earlier accept was refused at 5  *)
(* members: that invite is used and its addressee is no member.            *)
C8_Witness ==
    /\ last = Response("invite_create", 403, "MEMBER_LIMIT_REACHED")
    /\ getMemberCount = 4
    /\ Cardinality(PendingInvites) = 1
    /\ \E i \in 1..Len(team_invites) :
          /\ team_invites[i].accepted_at # NULL
          /\ ~TeamModel_isMember(team_invites[i].email)

(***************************************************************************)
(* Joining group 7: its admin, user 7, has a session on socket 1, switches *)
(* admin_approval, creates an invite link, approves and rejects requests   *)
(* and removes members; user 8 asks to join.                                *)
(***************************************************************************)
Joiners == {8}

NextGroup ==
    \/ Connect(1, 7)
    \/ ConnectFinish(1)
    \/ \E b \in BOOLEAN : GroupController_updatePermissions(7, 7, [admin_approval |-> b])
    \/ \E u \in Joiners, ok \in BOOLEAN : GroupController_joinRequest(u, 7, ok)
    \/ GroupController_createInvite(7, 7)
    \/ \E u \in Joiners, ok \in BOOLEAN : GroupController_joinByToken(u, 1, ok)
    \/ \E u \in {7, 8}, i \in 1..MaxJoinRequests, ok \in BOOLEAN :
          GroupController_approveJoinRequest(u, 7, i, ok)
    \/ \E u \in {7, 8}, i \in 1..MaxJoinRequests : GroupController_rejectJoinRequest(u, 7, i)
    \/ \E t \in Joiners : GroupController_removeMember(7, 7, t)

SpecGroup == Init /\ [][NextGroup]_vars

(* C9: a join request whose status is approved or rejected keeps that      *)
(* status in every later step.                                             *)
C9_TerminalStatus ==
    [][\A i \in 1..Len(group_join_requests) :
          group_join_requests[i].status \in {"approved", "rejected"}
          => group_join_requests'[i].status = group_join_requests[i].status]_vars

(* C10: when group 7 requires admin approval and a non-member's joinRequest *)
(* or joinByToken is answered 202, a pending request for that user has     *)
(* been added, no group_members row has changed, and every live session of *)
(* every admin of the group has received a 'notification' event.           *)
C10_ApprovalJoin ==
    [][\A u \in Joiners :
          (/\ isMember(7, u) = "none"
           /\ group_permissions[7].admin_approval
           /\ \/ GroupController_joinRequest(u, 7, TRUE)
              \/ GroupController_joinByToken(u, 1, TRUE)
           /\ last'.status = 202)
          => /\ group_join_requests' = Append(group_join_requests,
                                              [group_id |-> 7, user_id |-> u,
                                               status |-> "pending"])
             /\ group_members' = group_members
             /\ \A s \in SocketIds :
                   (Connected(s) /\ isAdmin(7, sockets[s].user))
                   => \E e \in Received(s) : e.event = "notification"
      ]_vars

(***************************************************************************)
(* Permission flags: admin 7 of group 7 switches edit_settings,            *)
(* add_members and invite_link; the admin and user 9, who is no member,    *)
(* update the group, add user 8 and create invite links; the admin removes *)
(* user 8 again.                                                           *)
(***************************************************************************)
PermissionBodies ==
    {[edit_settings |-> b] : b \in BOOLEAN} \cup {[add_members |-> b] : b \in BOOLEAN}
        \cup {[invite_link |-> b] : b \in BOOLEAN}

NextPermissions ==
    \/ \E body \in PermissionBodies : GroupController_updatePermissions(7, 7, body)
    \/ \E u \in {7, 9}, name \in {0, 1} : GroupController_update(u, 7, name)
    \/ \E u \in {7, 9}, ok \in BOOLEAN : GroupController_addMember(u, 7, 8, ok)
    \/ \E u \in {7, 9} : GroupController_createInvite(u, 7)
    \/ GroupController_removeMember(7, 7, 8)

SpecPermissions == Init /\ [][NextPermissions]_vars

(* C12: a group update, addMember or createInvite by an actor without a   *)
(* group_members row for the group is answered 403 and changes no group,   *)
(* membership, join request or invite link row, whatever the flags are.    *)
C12_NonMemberFailsClosed ==
    [][\A u \in GroupUsers :
          (/\ isMember(7, u) = "none"
           /\ \/ \E name \in {0, 1} : GroupController_update(u, 7, name)
              \/ \E ok \in BOOLEAN : GroupController_addMember(u, 7, 8, ok)
              \/ GroupController_createInvite(u, 7))
          => /\ last'.status = 403
             /\ UNCHANGED <<groups, group_members, group_join_requests,
                            group_invite_links, chat_participants>>
      ]_vars

(***************************************************************************)
(* Viewing: user 7 sends to user 8, into group 7 (after adding user 8) and *)
(* into the default channel 1; user 8 fetches the messages of the private  *)
(* chat, of the group and of the channel.                                  *)
(***************************************************************************)
NextViewing ==
    \/ GroupController_addMember(7, 7, 8, TRUE)
    \/ sendPrivateMessage(1, 7, 8)
    \/ getOrCreatePrivateChat_find(1)
    \/ getOrCreatePrivateChat_create(1)
    \/ GroupController_sendMessage(1, 7, 7)
    \/ MessageModel_create(1)
    \/ sendPrivateMessage_emit(1)
    \/ \E ok \in BOOLEAN : sendPrivateMessage_notify(1, ok)
    \/ GroupController_sendMessage_emit(1)
    \/ ChannelController_sendMessage(1, 7, 1)
    \/ ChannelController_sendMessage_findChat(1)
    \/ ChannelController_sendMessage_createChat(1)
    \/ ChannelController_sendMessage_insert(1)
    \/ ChannelController_sendMessage_emit(1)
    \/ \E c \in 1..Len(chats) : getMessages(8, c)
    \/ GroupController_getMessages(8, 7)
    \/ ChannelController_getMessages(8, 1)
    \/ Tick

SpecViewing == Init /\ [][NextViewing]_vars

(* The messages of a conversation that a fetch by u has to mark: not sent  *)
(* by u and not yet seen.                                                  *)
Unseen(ms, u) == {m \in ms : messages[m].sender_id # u /\ messages[m].seen_at = NULL}

(* C14: when a member's fetch of a private chat, of a group or of a        *)
(* channel completes, every message of that conversation that was not sent *)
(* by the viewer and was unseen has seen_at set.                           *)
C14_ViewMarksSeen ==
    [][\A u \in {8} :
          /\ \A c \in 1..Len(chats) :
                (isParticipant(c, u) /\ getMessages(u, c))
                => \A m \in Unseen({k \in 1..Len(messages) : messages[k].chat_id = c}, u) :
                      messages'[m].seen_at # NULL
          /\ (isMember(7, u) # "none" /\ GroupController_getMessages(u, 7))
             => \A m \in Unseen({k \in 1..Len(messages) :
                                    messages[k].chat_id \in findByGroupId(7)}, u) :
                   messages'[m].seen_at # NULL
          /\ (ChannelModel_isMember(1, u) /\ ChannelController_getMessages(u, 1))
             => \A m \in Unseen({k \in 1..Len(messages) : messages[k].channel_id = 1}, u) :
                   messages'[m].seen_at # NULL
      ]_vars

(***************************************************************************)
(* Indicators: user 7 (admin of group 7) has two sessions, sockets 1 and   *)
(* 2, user 8 has socket 3.  Socket 1 relays indicators to group 7 or to    *)
(* user 8; user 8 marks chats as seen over HTTP.                           *)
(***************************************************************************)
IndicatorPayloads == {[receiverId |-> 8, groupId |-> NULL], [receiverId |-> NULL, groupId |-> 7]}

NextIndicators ==
    \/ Connect(1, 7)
    \/ Connect(2, 7)
    \/ Connect(3, 8)
    \/ \E s \in SocketIds : ConnectFinish(s)
    \/ \E d \in IndicatorPayloads : typing(1, 1, d.receiverId, d.groupId)
    \/ \E d \in IndicatorPayloads : stop_typing(1, 1, d.receiverId, d.groupId)
    \/ \E d \in IndicatorPayloads : message_seen(1, 1, d.receiverId, d.groupId)
    \/ \E c \in 1..Len(chats) : ChatController_markAsSeen(8, c)

SpecIndicators == Init /\ [][NextIndicators]_vars

(* C15: no session ever holds a typing, stop_typing or message_seen event  *)
(* that its own user originated.                                           *)
C15_OriginatorExcluded ==
    \A t \in SocketIds : \A i \in 1..Len(inbox[t]) :
        inbox[t][i].event \in {"typing", "stop_typing", "message_seen"}
        => inbox[t][i].userId # sockets[t].user

(* C16: when ChannelController.sendMessage emits the channel_message of    *)
(* channel N, the room it emits to is the one keyed channel:N, so that the *)
(* sessions in room channel:N are the ones that receive it.                *)
C16_ChannelRoomPrefixed ==
    [][\A r \in ReqIds :
          (reqs[r].pc = "reread" /\ reqs[r].kind = "channel"
             /\ ChannelController_sendMessage_emit(r))
          => /\ ChannelRoomKey(reqs[r].target) = RoomKey("channel", reqs[r].target)
             /\ \A t \in InRoom(RoomKey("channel", reqs[r].target)) :
                   Len(inbox'[t]) = Len(inbox[t]) + 1
      ]_vars

(* C17: a join request or a join-request approval whose notification       *)
(* insert fails still reports success (a status below 400).                *)
C17_NotificationNeverFails ==
    [][/\ \A u \in Joiners :
            (isMember(7, u) = "none" /\ GroupController_joinRequest(u, 7, FALSE))
            => last'.status < 400
       /\ \A i \in 1..Len(group_join_requests) :
            (group_members[<<7, group_join_requests[i].user_id>>] = "none"
               /\ GroupController_approveJoinRequest(7, 7, i, FALSE))
            => last'.status < 400
      ]_vars

(* C18: whenever a step sets the accepted_at of a team invite, that step   *)
(* answers success and leaves the invited user a member of the team; an    *)
(* accept answered with an error leaves every invite as it was.            *)
C18_ConsumedOnlyByJoin ==
    [][\A i \in 1..Len(team_invites) :
          (team_invites[i].accepted_at = NULL /\ team_invites'[i].accepted_at # NULL)
          => /\ last'.op = "invite_accept"
             /\ last'.status = 200
             /\ TeamModel_isMember(team_invites[i].email)'
      ]_vars

(***************************************************************************)
(* Private chats: users 7 and 8 open chats with each other and with        *)
(* themselves, by sending a message (request 1) or by fetching the chat    *)
(* (request 2).                                                            *)
(***************************************************************************)
NextPrivate ==
    \/ \E u, v \in ChatUsers : sendPrivateMessage(1, u, v)
    \/ \E u, v \in ChatUsers : getPrivateChat(2, u, v)
    \/ \E r \in {1, 2} : getOrCreatePrivateChat_find(r)
    \/ \E r \in {1, 2} : getOrCreatePrivateChat_create(r)
    \/ MessageModel_create(1)
    \/ sendPrivateMessage_emit(1)
    \/ \E ok \in BOOLEAN : sendPrivateMessage_notify(1, ok)
    \/ getPrivateChat_seen(2)

SpecPrivate == Init /\ [][NextPrivate]_vars

(* C19: every private chat has exactly two participant rows (rows are      *)
(* unique per chat and user, so they are rows of two distinct users).      *)
C19_PrivateChatHasTwo ==
    \A c \in 1..Len(chats) :
        chats[c].type = "private"
        => Cardinality({p \in chat_participants : p[1] = c}) = 2

(* A createPrivateChat has failed and been rolled back while a private     *)
(* chat exists.                                                            *)
C19_Witness ==
    /\ last.status = 500
    /\ last.op \in {"private", "getchat"}
    /\ \E c \in 1..Len(chats) : chats[c].type = "private"

(***************************************************************************)
(* Default channels: the owner invites user 11, who accepts (the add may   *)
(* fail); members join and leave channels; the owner removes members.      *)
(***************************************************************************)
ChannelUsers == {8, 11}

NextChannels ==
    \/ InviteController_create(1, 7, 11)
    \/ InviteController_create_insert(1)
    \/ \E i \in 1..MaxInvites : InviteController_accept(1, 11, i)
    \/ \E ok \in BOOLEAN : InviteController_accept_add(1, ok)
    \/ \E u \in ChannelUsers, c \in ChannelIds : ChannelController_join(2, u, c)
    \/ ChannelController_join_add(2)
    \/ \E u \in ChannelUsers, c \in ChannelIds : ChannelController_leave(u, c)
    \/ \E t \in ChannelUsers : TeamController_removeMember(7, t)

SpecChannels == Init /\ [][NextChannels]_vars

C21_MembersWithinLimit == getMemberCount <= DefaultMemberLimit

(* C22: every channel_members edge belongs to a user who is a member of    *)
(* the channel's team.                                                     *)
C22_EdgesOfTeamMembers ==
    \A p \in channel_members : channels[p[1]].team_id = 1 => TeamModel_isMember(p[2])

(***************************************************************************)
(* Channel conversations: members 7 and 8 send into the default channel 1  *)
(* and into channel 2, two requests at a time.                             *)
(***************************************************************************)
NextChannelChat ==
    \/ \E r \in {1, 2}, u \in {7, 8}, c \in {1, 2} : ChannelController_sendMessage(r, u, c)
    \/ \E r \in {1, 2} : ChannelController_sendMessage_findChat(r)
    \/ \E r \in {1, 2} : ChannelController_sendMessage_createChat(r)
    \/ \E r \in {1, 2} : ChannelController_sendMessage_insert(r)
    \/ \E r \in {1, 2} : ChannelController_sendMessage_emit(r)

SpecChannelChat == Init /\ [][NextChannelChat]_vars

(* C23: no two messages with the same channel_id have different chat_id.   *)
C23_ChannelChatStable ==
    \A m1, m2 \in 1..Len(messages) :
        (messages[m1].channel_id # NULL /\ messages[m1].channel_id = messages[m2].channel_id)
        => messages[m1].chat_id = messages[m2].chat_id

(* C24: the participants of a group's chat are exactly the users with a    *)
(* group_members edge for that group.                                      *)
C24_ParticipantsAreMembers ==
    \A g \in GroupIds, u \in GroupUsers :
        (\E c \in findByGroupId(g) : isParticipant(c, u)) <=> (isMember(g, u) # "none")

(* C25: a session holds an event of group G only if its user has a         *)
(* group_members edge for G (memberships do not change under SpecRooms).   *)
C25_GroupEventsToMembers ==
    \A t \in SocketIds : \A i \in 1..Len(inbox[t]) : \A g \in GroupIds :
        inbox[t][i].room = RoomKey("group", g) => isMember(g, sockets[t].user) # "none"

(* C26: once a user has no live session and none of the user's connection  *)
(* handlers is still pending, the user is not in the online registry.      *)
C26_NoStaleOnline ==
    \A u \in SocketUsers :
        (/\ LiveSessions(u) = {}
         /\ \A t \in SocketIds : ~(sockets[t].user = u /\ sockets[t].st = "lost"))
        => u \notin getOnlineUsers

(* C27: the message row inserted by a sendPrivateMessage from A to R lies  *)
(* in a private chat whose participants are exactly A and R.               *)
C27_StoredInChatOfPair ==
    [][\A r \in ReqIds :
          (reqs[r].pc = "insert" /\ reqs[r].kind = "private"
             /\ Len(messages') = Len(messages) + 1)
          => LET c == messages'[Len(messages')].chat_id
             IN /\ chats[c].type = "private"
                /\ {p[2] : p \in {q \in chat_participants : q[1] = c}}
                      = {reqs[r].user, reqs[r].target}
      ]_vars

(***************************************************************************)
(* Scoped resources: user 9 asks to join groups 7 and 8, admin 7 creates   *)
(* an invite link of group 7; admin 8 approves, rejects and deletes by id, *)
(* always naming its own group 8.                                          *)
(***************************************************************************)
NextScoped ==
    \/ \E g \in GroupIds, b \in BOOLEAN :
          GroupController_updatePermissions(g, g, [admin_approval |-> b])
    \/ \E g \in GroupIds : GroupController_joinRequest(9, g, TRUE)
    \/ GroupController_createInvite(7, 7)
    \/ \E i \in 1..MaxJoinRequests : GroupController_approveJoinRequest(8, 8, i, TRUE)
    \/ \E i \in 1..MaxJoinRequests : GroupController_rejectJoinRequest(8, 8, i)
    \/ \E i \in 1..MaxLinks : GroupController_deleteInvite(8, 8, i)

SpecScoped == Init /\ [][NextScoped]_vars

(* C28: an approve or reject by the admin of group 8 naming group 8 leaves *)
(* every join request of another group as it was, and a deleteInvite       *)
(* naming group 8 leaves every invite link of another group as it was.     *)
C28_ScopedToGroup ==
    [][/\ \A i \in 1..Len(group_join_requests) :
            (group_join_requests[i].group_id # 8
               /\ (\/ GroupController_approveJoinRequest(8, 8, i, TRUE)
                   \/ GroupController_rejectJoinRequest(8, 8, i)))
            => group_join_requests'[i] = group_join_requests[i]
       /\ \A i \in 1..Len(group_invite_links) :
            (group_invite_links[i].group_id # 8 /\ GroupController_deleteInvite(8, 8, i))
            => group_invite_links'[i] = group_invite_links[i]
      ]_vars

(***************************************************************************)
(* Channel administration: the owner 7 and the member 8 of team 1 update   *)
(* and delete channels, channel 4 of team 2 included.                      *)
(***************************************************************************)
NextChannelAdmin ==
    \/ \E u \in {7, 8}, c \in ChannelIds, type \in {"none", "public", "private"} :
          ChannelController_update(u, c, type)
    \/ \E u \in {7, 8}, c \in ChannelIds : ChannelController_delete(u, c)
    \/ Tick

SpecChannelAdmin == Init /\ [][NextChannelAdmin]_vars

(* C29: a delete request for a live channel of another team than the       *)
(* caller's current team is answered 403 and leaves the channels as they   *)
(* were.                                                                   *)
C29_DeleteOwnTeamOnly ==
    [][\A u \in {7, 8}, c \in ChannelIds :
          (/\ ChannelModel_findById(c) # {}
           /\ channels[c].team_id # teamId(u)
           /\ ChannelController_delete(u, c))
          => (last'.status = 403 /\ channels' = channels)
      ]_vars

(***************************************************************************)
(* Retry: authenticate calls queryWithRetry; every pool.query settles and  *)
(* every backoff timer fires.                                              *)
(***************************************************************************)
NextRetry ==
    \/ \E attempts \in 1..MaxAttempts : queryWithRetry(attempts)
    \/ \E outcome \in QueryOutcomes : queryWithRetry_query(outcome)
    \/ queryWithRetry_backoff
    \/ authenticate_resume

SpecRetry ==
    /\ Init
    /\ [][NextRetry]_vars
    /\ WF_vars(\E outcome \in QueryOutcomes : queryWithRetry_query(outcome))
    /\ WF_vars(queryWithRetry_backoff)

Failed(k) == \A j \in 1..k : ~retry.log[j].ok

(* C30: a call makes at most `attempts` queries and ends; it returns on    *)
(* the first query that succeeds, goes on to another query only after a    *)
(* transient error with attempts left, and throws on a non-transient error *)
(* or on the error of the last attempt.                                    *)
C30_BoundedRetry ==
    /\ [](LET n == Len(retry.log)
          IN /\ n <= retry.attempts
             /\ retry.pc = "returned" => (n > 0 /\ retry.log[n].ok /\ Failed(n - 1))
             /\ retry.pc \in {"query", "backoff"}
                => (/\ n < retry.attempts
                    /\ Failed(n)
                    /\ \A j \in 1..n : isTransientError(retry.log[j]))
             /\ retry.pc = "thrown"
                => (/\ n > 0
                    /\ Failed(n)
                    /\ (~isTransientError(retry.log[n]) \/ n = retry.attempts)))
    /\ (retry.pc = "query") ~> (retry.pc \in {"returned", "thrown"})

(* A call returned the result of its third query, after two transient      *)
(* errors.                                                                 *)
C30_Witness == retry.pc = "returned" /\ Len(retry.log) = 3

====
